---- MODULE Spec2Model ----
(***************************************************************************)
(* Orbit: the rolling deployer, the node registry with its heartbeat       *)
(* engine, the SSH connection pool and the BoltDB-backed store they share. *)
(* Thirteen specifications over one set of variables:                       *)
(*   SpecDeploy     Deployer.Deploy against the store and the runtime      *)
(*   SpecHeartbeat  Engine.Watch / Unwatch and the watchLoop of one node   *)
(*   SpecRegistry   Registry.Add / Trust concurrent with one watchLoop     *)
(*   SpecPool       Pool.Connect / Pool.Run / Pool.dial and the registry   *)
(*   SpecStore      state.DB and Registry calls with arguments of any shape*)
(*   SpecWatch      Engine.Watch / Unwatch / StopAll over two node names   *)
(*   SpecBacklog    the watchLoop on a channel that nothing drains         *)
(*   SpecResolve    Deploy without a health check over any image and tag   *)
(*   SpecDown       LifecycleManager.Down after Deploys on two nodes       *)
(*   SpecPrior      Deploy over ServiceStates put by a caller of the store *)
(*   SpecMutex      Pool calls for two nodes contending for Pool.mu        *)
(*   SpecUpdate     state.DB node operations over two node names           *)
(*   SpecProbe      the watchLoop probing through the Pool, with Trust     *)
(***************************************************************************)
EXTENDS Integers, Sequences, FiniteSets, TLC

VARIABLES
    \* state.DB (internal/core/state/state.go): one function per bucket, key -> value
    nodes,          \* bucket "nodes": node name -> NodeInfo
    services,       \* bucket "services": node "/" name -> ServiceState
    deployments,    \* bucket "deployments": record id -> DeploymentRecord
    \* container runtime behind orchestrator.Client
    containers,     \* container id -> [name, image, running]
    nextId,         \* number of containers the runtime has created so far
    now,            \* time.Now().Unix()
    \* Deployer.Deploy: the call in progress
    dpc,            \* position in Deploy
    dep,            \* its locals: spec, node, opts, image, timeout, existing, newID, ...
    ndeploys,       \* Deploy calls started so far
    \* remote.Engine (heartbeat)
    cancels,        \* Engine.cancels: node name -> the task its cancel func stops
    tasks,          \* the watchLoop goroutines started so far, in order of start
    events,         \* Engine.events: the buffered channel
    emitLog,        \* every event a task sent into the channel, in order
    lastWriter,     \* node name -> who wrote the node's record last
    regOps,         \* Registry calls between their read and their write: id -> [op, info]
    nticks,         \* heartbeat ticks taken so far
    nregops,        \* Registry calls started so far
    \* remote.Pool
    conns,          \* Pool.conns: node name -> transport
    remoteFp,       \* node name -> fingerprint of the host key the remote presents
    poolLast,       \* the last Pool.Connect / Pool.Run call and its outcome
    ndials,         \* transports dialled so far
    npoolcalls,     \* Pool calls made so far
    poolMu          \* Pool.mu: Nil when free, else the Connect call that holds it

storeVars  == <<nodes, services, deployments>>
deployVars == <<containers, nextId, now, dpc, dep, ndeploys>>
hbVars     == <<cancels, tasks, events, emitLog, lastWriter, regOps, nticks, nregops>>
poolVars   == <<conns, remoteFp, poolLast, ndials, npoolcalls, poolMu>>
vars       == <<storeVars, deployVars, hbVars, poolVars>>

-----------------------------------------------------------------------------
(* Bounds of the model *)

MaxDeploys == 2
MaxTicks == 6
MaxTasks == 2
MaxAdds == 1
MaxRegOps == 3
MaxRegTicks == 3
MaxPoolCalls == 3
MaxPoolRegOps == 2
MaxStoreRegOps == 2
MaxRewatch == 1
MaxWatchTicks == 3

-----------------------------------------------------------------------------
(* Values *)

\* a nil pointer / "not found"
Nil == [nil |-> TRUE]

-----------------------------------------------------------------------------
(* state.DB: generic helpers *)

putJSON(bucket, key, val) ==
    [k \in DOMAIN bucket \cup {key} |-> IF k = key THEN val ELSE bucket[k]]

getJSON(bucket, key) ==
    IF key \in DOMAIN bucket THEN bucket[key] ELSE Nil

EmptyBucket == [k \in {} |-> Nil]

ServiceKey(node, name) == node \o "/" \o name

GetServiceState(node, name) == getJSON(services, ServiceKey(node, name))

\* the bucket after PutServiceState(state)
PutServiceStateKeyedByName(state) == putJSON(services, state.Name, state)
PutServiceState(state) == putJSON(services, ServiceKey(state.Node, state.Name), state)

\* ListServiceStates(node): every state, or the states of one node
ListServiceStates(node) ==
    {services[k] : k \in {i \in DOMAIN services : node = "" \/ services[i].Node = node}}

\* the bucket after PutDeployment(rec)
PutDeployment(rec) == putJSON(deployments, rec.ID, rec)

ListDeployments(service) ==
    {deployments[id] : id \in {i \in DOMAIN deployments :
                                  service = "" \/ deployments[i].Service = service}}

-----------------------------------------------------------------------------
(* pkg/errs: the structured error Deploy returns *)

ErrStateRead         == "ERR-STATE-001"
ErrDockerPullAsRun   == "ERR-DOCKER-003"
ErrDockerPull        == "ERR-DOCKER-002"
ErrDockerRun         == "ERR-DOCKER-003"
ErrServiceHealthFail == "ERR-SVC-004"
ErrServiceRollback   == "ERR-SVC-005"

OrbitError(code, op, node, advice) ==
    [Code |-> code, Op |-> op, Node |-> node, Advice |-> advice]

\* a nil error
NoErr == OrbitError("", "", "", "")

\* The result field of a DeploymentRecord (success | failure | rolledback) that a
\* returned error stands for: nil is success, the rollback kind is rolledback,
\* every other kind is failure.
TerminalResult(err) ==
    IF err = NoErr THEN "success"
    ELSE IF err.Code = ErrServiceRollback THEN "rolledback"
    ELSE "failure"

-----------------------------------------------------------------------------
(* Deployer: image resolution and effective timeout *)

DefaultDeployTimeout == 120

RECURSIVE lastColonFrom(_, _)
lastColonFrom(s, i) ==
    IF i < 0 THEN -1
    ELSE IF s[i + 1] = ":" THEN i
    ELSE lastColonFrom(s, i - 1)

\* index (from 0) of the first colon of s, -1 when it has none
firstColonIdx(s) ==
    IF \E i \in 1..Len(s) : s[i] = ":"
    THEN (CHOOSE i \in 1..Len(s) : s[i] = ":" /\ \A j \in 1..(i - 1) : s[j] # ":") - 1
    ELSE -1

\* index (from 0) of the last colon of s, -1 when it has none
lastColonIdx(s) == lastColonFrom(s, Len(s) - 1)

ResolveImage(image, tag) ==
    IF tag # <<>>
    THEN LET idx == lastColonIdx(image) IN
         IF idx # -1 THEN SubSeq(image, 1, idx + 1) \o tag
                     ELSE image \o <<":">> \o tag
    ELSE image

EffectiveTimeout(spec, opts) ==
    LET t0 == DefaultDeployTimeout
        t1 == IF opts.Timeout > 0 THEN opts.Timeout ELSE t0
    IN  IF spec.Deploy # Nil /\ spec.HealthCheck # Nil /\ spec.HealthCheck.Timeout > 0
        THEN spec.HealthCheck.Timeout * (spec.HealthCheck.Retries + 2)
        ELSE t1

-----------------------------------------------------------------------------
(* health.Checker.WaitHealthy: the retry budget *)

DefaultRetries == 3

WaitRetriesDefault(hc) == DefaultRetries
WaitRetries(hc) == IF hc.Retries = 0 THEN DefaultRetries ELSE hc.Retries

-----------------------------------------------------------------------------
(* orchestrator.Client: the container runtime *)

NameInUse(cs, name) == \E id \in DOMAIN cs : cs[id].name = name

ContainerId(n) == "c" \o ToString(n)

\* RunContainer creates and starts a container; out is what the runtime answers.
\* A create fails when the runtime refuses it or the name is taken; a container
\* that does not start is force-removed again.
RunContainer(cs, nid, image, name, out) ==
    IF out = "createfail" \/ NameInUse(cs, name)
    THEN [cs |-> cs, nid |-> nid, id |-> "", ok |-> FALSE]
    ELSE IF out = "startfail"
    THEN [cs |-> cs, nid |-> nid + 1, id |-> "", ok |-> FALSE]
    ELSE LET id == ContainerId(nid + 1) IN
         [cs  |-> [c \in DOMAIN cs \cup {id} |->
                      IF c = id THEN [name |-> name, image |-> image, running |-> TRUE]
                                ELSE cs[c]],
          nid |-> nid + 1, id |-> id, ok |-> TRUE]

Resolve(cs, idOrName) ==
    {c \in DOMAIN cs : c = idOrName \/ cs[c].name = idOrName}

\* StopContainer stops and, when remove is set, removes.
StopContainer(cs, idOrName, remove, out) ==
    LET hit == Resolve(cs, idOrName) IN
    IF hit = {} \/ out = "stopfail"
    THEN [cs |-> cs, ok |-> FALSE]
    ELSE LET stopped == [c \in DOMAIN cs |->
                            IF c \in hit THEN [cs[c] EXCEPT !.running = FALSE] ELSE cs[c]]
         IN  IF ~remove THEN [cs |-> stopped, ok |-> TRUE]
             ELSE IF out = "removefail" THEN [cs |-> stopped, ok |-> FALSE]
             ELSE [cs |-> [c \in DOMAIN cs \ hit |-> cs[c]], ok |-> TRUE]

ContainerRename(cs, id, newName, out) ==
    IF id \notin DOMAIN cs \/ out # "ok" \/ NameInUse(cs, newName)
    THEN [cs |-> cs, ok |-> FALSE]
    ELSE [cs |-> [cs EXCEPT ![id].name = newName], ok |-> TRUE]

RunOutcomes  == {"ok", "createfail", "startfail"}
StopOutcomes == {"ok", "stopfail", "removefail"}

-----------------------------------------------------------------------------
(* Deployer.Deploy, one action per phase *)

\* the inputs of a Deploy call
Colon  == ":"
Images == { <<"n">>, <<"n", Colon, "1">> }
Tags   == { <<>>, <<"2">> }
DeployServices == {"web"}
DeployNodes    == {"local"}

HealthChecks ==
    {Nil} \cup [Timeout : {2}, Retries : {0, 1, 2}]
DeploySpecs ==
    {Nil} \cup [RollbackOnFailure : BOOLEAN]
ServiceSpecs ==
    [Name : DeployServices, Image : Images, HealthCheck : HealthChecks, Deploy : DeploySpecs]
DeployOptions ==
    [Tag : Tags, Timeout : {0}, DryRun : BOOLEAN]

DepIdle ==
    [spec |-> Nil, node |-> "", opts |-> Nil, image |-> <<>>, timeout |-> 0,
     existing |-> Nil, newID |-> "", newName |-> "", attempt |-> 0, sleeps |-> 0,
     probes |-> 0, healthErr |-> "", ret |-> NoErr, calls |-> <<>>, pre |-> EmptyBucket,
     preDeployments |-> EmptyBucket, putOk |-> FALSE]

\* a call Deploy made on the runtime or the store, kept in dep.calls
Call(op, target, name, image, ok) ==
    [op |-> op, target |-> target, name |-> name, image |-> image, ok |-> ok]

Return(d, err) == [d EXCEPT !.ret = err]

\* Deploy, lines 69-72: a dry run returns nil before anything is read or called
AfterStartIgnoringDryRun(opts) == "getstate"
AfterStart(opts) == IF opts.DryRun THEN "done" ELSE "getstate"

\* Deploy, lines 47-72: resolve the image and the timeout; a dry run returns here.
DeployStart(spec, node, opts) ==
    /\ dpc = "idle"
    /\ ndeploys < MaxDeploys
    /\ ndeploys' = ndeploys + 1
    /\ dep' = [DepIdle EXCEPT !.spec = spec, !.node = node, !.opts = opts,
                              !.image = ResolveImage(spec.Image, opts.Tag),
                              !.timeout = EffectiveTimeout(spec, opts),
                              !.pre = services, !.preDeployments = deployments]
    /\ dpc' = AfterStart(opts)
    /\ UNCHANGED <<storeVars, containers, nextId, now, hbVars, poolVars>>

\* lines 75-78: read the existing ServiceState
DeployGetState ==
    /\ dpc = "getstate"
    /\ \E ok \in BOOLEAN :
        LET d1 == [dep EXCEPT !.calls = Append(@, Call("getstate", "", "", <<>>, ok))] IN
        IF ok
        THEN /\ dep' = [d1 EXCEPT !.existing = GetServiceState(dep.node, dep.spec.Name)]
             /\ dpc' = "pull"
        ELSE /\ dep' = Return(d1, OrbitError(ErrStateRead, "deploy.getstate", "", ""))
             /\ dpc' = "done"
    /\ UNCHANGED <<storeVars, containers, nextId, now, ndeploys, hbVars, poolVars>>

\* lines 81-85: pull the new image
DeployPull ==
    /\ dpc = "pull"
    /\ \E ok \in BOOLEAN :
        LET d1 == [dep EXCEPT !.calls = Append(@, Call("pull", "", "", dep.image, ok))] IN
        IF ok
        THEN /\ dep' = d1
             /\ dpc' = "run"
        ELSE /\ dep' = Return(d1, OrbitError(ErrDockerPull, "deploy.pull", dep.node,
                                  "Check your registry credentials and image name"))
             /\ dpc' = "done"
    /\ UNCHANGED <<storeVars, containers, nextId, now, ndeploys, hbVars, poolVars>>

\* lines 88-100: start the shadow container under "<service>-new-<unix time>"
DeployRun ==
    /\ dpc = "run"
    /\ \E out \in RunOutcomes, ts \in {now, now + 1} :
        LET newName == dep.spec.Name \o "-new-" \o ToString(ts)
            r  == RunContainer(containers, nextId, dep.image, newName, out)
            d1 == [dep EXCEPT !.calls = Append(@, Call("run", r.id, newName, dep.image, r.ok)),
                              !.newName = newName, !.newID = r.id]
        IN  /\ now' = ts
            /\ containers' = r.cs
            /\ nextId' = r.nid
            /\ IF r.ok
               THEN /\ dep' = d1
                    /\ dpc' = IF dep.spec.HealthCheck # Nil THEN "wait" ELSE "stopold"
               ELSE /\ dep' = Return(d1, OrbitError(ErrDockerRun, "deploy.run", dep.node, ""))
                    /\ dpc' = "done"
    /\ UNCHANGED <<storeVars, ndeploys, hbVars, poolVars>>

\* lines 109-113: an error of WaitHealthy takes Deploy to the stop of the shadow
AfterHealthErrorPromotes == "stopold"
AfterHealthError == "stopshadow"

\* lines 103-109 and WaitHealthy: one iteration of the attempt loop. The context
\* (deadline of the effective timeout, or the caller's cancellation) may be done
\* before the attempt or during the sleep; otherwise the probe passes or fails.
DeployWait ==
    /\ dpc = "wait"
    /\ \E out \in {"pass", "fail", "ctxdone"} :
        LET retries == WaitRetries(dep.spec.HealthCheck)
            slept   == IF dep.attempt > 0 THEN dep.sleeps + 1 ELSE dep.sleeps
        IN  CASE out = "ctxdone" ->
                   /\ dep' = [dep EXCEPT !.healthErr = "context"]
                   /\ dpc' = AfterHealthError
              [] out = "pass" ->
                   /\ dep' = [dep EXCEPT !.sleeps = slept, !.probes = @ + 1]
                   /\ dpc' = "stopold"
              [] out = "fail" ->
                   /\ dep' = [dep EXCEPT !.sleeps = slept, !.probes = @ + 1,
                                         !.attempt = @ + 1,
                                         !.healthErr = IF dep.attempt + 1 > retries
                                                       THEN "attempts" ELSE ""]
                   /\ dpc' = IF dep.attempt + 1 > retries THEN AfterHealthError ELSE "wait"
    /\ UNCHANGED <<storeVars, containers, nextId, now, ndeploys, hbVars, poolVars>>

HealthFailError(d) ==
    OrbitError(ErrServiceHealthFail, "deploy.healthcheck", d.node,
               "New container failed health check. Run: orbit logs " \o d.spec.Name)

\* line 116: the rollback condition
RollbackWantedIgnoringFlag(existing, spec) ==
    existing # Nil
RollbackWanted(existing, spec) ==
    existing # Nil /\ spec.Deploy # Nil /\ spec.Deploy.RollbackOnFailure

\* lines 110-113: the health check failed; stop and remove the shadow (result ignored)
DeployStopShadow ==
    /\ dpc = "stopshadow"
    /\ \E out \in StopOutcomes :
        LET r  == StopContainer(containers, dep.newID, TRUE, out)
            d1 == [dep EXCEPT !.calls = Append(@, Call("stop", dep.newID, "", <<>>, r.ok))]
        IN  /\ containers' = r.cs
            /\ IF RollbackWanted(dep.existing, dep.spec)
               THEN /\ dep' = d1
                    /\ dpc' = "rollback"
               ELSE /\ dep' = Return(d1, HealthFailError(dep))
                    /\ dpc' = "done"
    /\ UNCHANGED <<storeVars, nextId, now, ndeploys, hbVars, poolVars>>

\* ids that are no full runtime id: the empty id and one of three characters.
\* ContainerId(n) stands for an id of 64 hex digits.
ShortIds == {"", "abc"}

\* lines 117 and 133: existing.ContainerID[:12] is within the string
HasIdPrefix(id) == id \notin ShortIds

\* lines 116-127: log the old container's id prefix, run the old image under the
\* service name, then return the health-check error. The slice of an id shorter
\* than 12 bytes panics: Deploy does not return.
DeployRollback ==
    /\ dpc = "rollback"
    /\ IF ~HasIdPrefix(dep.existing.ContainerID)
       THEN /\ dpc' = "panic"
            /\ UNCHANGED <<containers, nextId, dep>>
       ELSE \E out \in RunOutcomes :
        LET r  == RunContainer(containers, nextId, dep.existing.Image, dep.spec.Name, out)
            d1 == [dep EXCEPT !.calls = Append(@, Call("run", r.id, dep.spec.Name,
                                                       dep.existing.Image, r.ok))]
        IN  /\ containers' = r.cs
            /\ nextId' = r.nid
            /\ dep' = Return(d1, HealthFailError(dep))
            /\ dpc' = "done"
    /\ UNCHANGED <<storeVars, now, ndeploys, hbVars, poolVars>>

\* lines 132-137: stop and remove the old container (a failure is logged); the
\* log line before the stop slices the id and panics on a short one
DeployStopOld ==
    /\ dpc = "stopold"
    /\ IF dep.existing # Nil /\ dep.existing.ContainerID # ""
       THEN IF ~HasIdPrefix(dep.existing.ContainerID)
            THEN /\ dpc' = "panic"
                 /\ UNCHANGED <<containers, dep>>
            ELSE \E out \in StopOutcomes :
              LET r == StopContainer(containers, dep.existing.ContainerID, TRUE, out) IN
              /\ containers' = r.cs
              /\ dep' = [dep EXCEPT !.calls =
                            Append(@, Call("stop", dep.existing.ContainerID, "", <<>>, r.ok))]
              /\ dpc' = "rename"
       ELSE /\ UNCHANGED <<containers, dep>>
            /\ dpc' = "rename"
    /\ UNCHANGED <<storeVars, nextId, now, ndeploys, hbVars, poolVars>>

\* lines 140-142: Deploy goes on to persist whether or not the rename worked
AfterRenameStrict(ok) == IF ok THEN "persist" ELSE "done"
AfterRename(ok) == "persist"

\* lines 140-142: rename the shadow to the service name (a failure is logged)
DeployRename ==
    /\ dpc = "rename"
    /\ \E out \in {"ok", "fail"} :
        LET r == ContainerRename(containers, dep.newID, dep.spec.Name, out) IN
        /\ containers' = r.cs
        /\ dep' = [dep EXCEPT !.calls =
                      Append(@, Call("rename", dep.newID, dep.spec.Name, <<>>, r.ok))]
        /\ dpc' = AfterRename(r.ok)
    /\ UNCHANGED <<storeVars, nextId, now, ndeploys, hbVars, poolVars>>

NewStateWithSpecImage(d) ==
    [Name |-> d.spec.Name, ContainerID |-> d.newID, Image |-> d.spec.Image,
     Status |-> "healthy", Node |-> d.node]
NewState(d) ==
    [Name |-> d.spec.Name, ContainerID |-> d.newID, Image |-> d.image,
     Status |-> "healthy", Node |-> d.node]

\* lines 145-158: persist the new ServiceState (a failure is logged) and return nil
DeployPersist ==
    /\ dpc = "persist"
    /\ \E ok \in BOOLEAN :
        /\ services' = IF ok THEN PutServiceState(NewState(dep)) ELSE services
        /\ dep' = Return([dep EXCEPT !.calls = Append(@, Call("putstate", "", "", <<>>, ok)),
                                     !.putOk = ok], NoErr)
    /\ dpc' = "done"
    /\ UNCHANGED <<nodes, deployments, containers, nextId, now, ndeploys, hbVars, poolVars>>

\* the call has returned: its locals are gone, the Deployer takes the next call
DeployReturn ==
    /\ dpc = "done"
    /\ dpc' = "idle"
    /\ dep' = DepIdle
    /\ UNCHANGED <<storeVars, containers, nextId, now, ndeploys, hbVars, poolVars>>

\* images with a registry port, with and without a tag, and with nothing after
\* the colon; tags of one and of several characters; a second node
AnyImages ==
    Images \cup { <<"r", Colon, "5", "/", "n">>, <<"r", Colon, "5", "/", "n", Colon, "1">>,
                  <<"n", Colon>> }
AnyTags == Tags \cup { <<"x", "y", "z">> }
AnyNodes == DeployNodes \cup {"n1"}
PlainSpecs ==
    [Name : DeployServices, Image : AnyImages, HealthCheck : {Nil}, Deploy : {Nil}]
AnyOptions ==
    [Tag : AnyTags, Timeout : {0}, DryRun : BOOLEAN]

\* Deploy of specs without a health check, over any image and tag: dry runs on
\* either node, the others on the first
ResolveNext ==
    \/ \E spec \in PlainSpecs, node \in AnyNodes, opts \in AnyOptions :
          (opts.DryRun \/ node \in DeployNodes) /\ DeployStart(spec, node, opts)
    \/ DeployGetState
    \/ DeployPull
    \/ DeployRun
    \/ DeployStopOld
    \/ DeployRename
    \/ DeployPersist
    \/ DeployReturn

-----------------------------------------------------------------------------
(* LifecycleManager.Down *)

\* Down, lines 338-346: the listed states Down goes through, all of them when
\* no name is given
DownTargets(node, names) ==
    {s \in ListServiceStates(node) : names = {} \/ s.Name \in names}

\* Down, lines 347-350: stop and remove the container of each of them; a failed
\* stop is logged
RECURSIVE StopEach(_, _, _)
StopEach(cs, targets, outs) ==
    IF targets = {} THEN cs
    ELSE LET s == CHOOSE t \in targets : TRUE IN
         StopEach(StopContainer(cs, s.ContainerID, TRUE, outs[s.Name]).cs,
                  targets \ {s}, outs)

\* Down, lines 332-353, returning nil: nothing but the runtime is touched. The
\* log line of line 347 slices the id; on a short id Down panics and does not
\* return.
Down(node, names, outs) ==
    /\ \A s \in DownTargets(node, names) : HasIdPrefix(s.ContainerID)
    /\ containers' = StopEach(containers, DownTargets(node, names), outs)
    /\ UNCHANGED <<storeVars, nextId, now, dpc, dep, ndeploys, hbVars, poolVars>>

DownNames == { {}, {"web"}, {"db"} }

DownSpecs ==
    [Name : DeployServices, Image : {<<"n">>}, HealthCheck : {Nil}, Deploy : {Nil}]
DownOptions ==
    [Tag : Tags, Timeout : {0}, DryRun : {FALSE}]

\* Deploys that create ServiceStates on two nodes, and Down
DownNext ==
    \/ \E spec \in DownSpecs, node \in AnyNodes, opts \in DownOptions :
          DeployStart(spec, node, opts)
    \/ DeployGetState
    \/ DeployPull
    \/ DeployRun
    \/ DeployStopOld
    \/ DeployRename
    \/ DeployPersist
    \/ DeployReturn
    \/ \E node \in AnyNodes, names \in DownNames, outs \in [DeployServices -> StopOutcomes] :
          Down(node, names, outs)

-----------------------------------------------------------------------------
(* Deploy over ServiceStates that some caller of the store put there *)

\* ServiceState values a caller may pass to PutServiceState: an empty id, a
\* short id, and the id of a container that is not on the runtime
ServiceStateArgs ==
    [Name : DeployServices, ContainerID : ShortIds \cup {"c9"}, Image : {<<"n", Colon, "1">>},
     Status : {"healthy"}, Node : DeployNodes]

StorePutServiceState(state) ==
    /\ dpc = "idle"
    /\ services' = PutServiceState(state)
    /\ UNCHANGED <<nodes, deployments, deployVars, hbVars, poolVars>>

PriorSpecs ==
    [Name : DeployServices, Image : {<<"n">>}, HealthCheck : {[Timeout |-> 2, Retries |-> 1]},
     Deploy : DeploySpecs]

PriorNext ==
    \/ \E state \in ServiceStateArgs : StorePutServiceState(state)
    \/ \E spec \in PriorSpecs, node \in DeployNodes, opts \in DownOptions :
          DeployStart(spec, node, opts)
    \/ DeployGetState
    \/ DeployPull
    \/ DeployRun
    \/ DeployWait
    \/ DeployStopShadow
    \/ DeployRollback
    \/ DeployStopOld
    \/ DeployRename
    \/ DeployPersist
    \/ DeployReturn

DeployNext ==
    \/ \E spec \in ServiceSpecs, node \in DeployNodes, opts \in DeployOptions :
          DeployStart(spec, node, opts)
    \/ DeployGetState
    \/ DeployPull
    \/ DeployRun
    \/ DeployWait
    \/ DeployStopShadow
    \/ DeployRollback
    \/ DeployStopOld
    \/ DeployRename
    \/ DeployPersist
    \/ DeployReturn

-----------------------------------------------------------------------------
(* Node records: state.DB node operations and remote.Registry *)

HbNodes == {"n1"}

\* the nodes Engine.Watch is called for; n2 is never registered
WatchNodes == HbNodes \cup {"n2"}

NodeOnline   == "online"
NodeOffline  == "offline"
NodeDegraded == "degraded"

\* the NodeInfo `orbit nodes add` builds
NewNodeInfo(name) ==
    [Name |-> name, Key |-> "id_ed25519", Status |-> NodeOffline, LastSeen |-> 0,
     KeyFingerprint |-> "", HostKey |-> "", HostKeyKnown |-> FALSE, FailCount |-> 0]

Fingerprints == {"AA", "CC"}
EncodedKey(fp) == "host ssh-ed25519 " \o fp

GetNode(name) == getJSON(nodes, name)

\* the bucket after PutNode(info)
PutNode(info) == putJSON(nodes, info.Name, info)

\* time.Now() of the registry and of UpdateNodeStatus: a reading of the clock
HbNow == now

\* UpdateNodeStatus, lines 110-113: the record written back
WithStatusOfNew(info, status, failCount) ==
    [NewNodeInfo(info.Name) EXCEPT !.Status = status, !.LastSeen = HbNow,
                                   !.FailCount = failCount]
WithStatus(info, status, failCount) ==
    [info EXCEPT !.Status = status, !.LastSeen = HbNow, !.FailCount = failCount]

\* MarkOffline, lines 84-87, and MarkOnline: the status passed to UpdateNodeStatus
MarkOfflineStatusFrom4(failCount) ==
    IF failCount >= 4 THEN NodeOffline ELSE NodeDegraded
MarkOfflineStatus(failCount) ==
    IF failCount >= 3 THEN NodeOffline ELSE NodeDegraded

\* Registry.Trust, lines 71-73: the record written back
Trusted(info, fingerprint, encodedHostKey) ==
    [info EXCEPT !.KeyFingerprint = fingerprint, !.HostKey = encodedHostKey,
                 !.HostKeyKnown = TRUE]

\* who wrote a node's record last: a Registry call or the watchLoop task t
Writer(who, t) == [who |-> who, task |-> t]

Wrote(who, t, name) ==
    [n \in DOMAIN lastWriter \cup {name} |->
        IF n = name THEN Writer(who, t) ELSE lastWriter[n]]

\* Registry.Add, lines 24-30: read the record; an existing one is an error
RegAddBegin(node) ==
    /\ nregops < MaxRegOps
    /\ nregops' = nregops + 1
    /\ IF GetNode(node.Name) # Nil
       THEN UNCHANGED regOps
       ELSE regOps' = putJSON(regOps, nregops + 1, [op |-> "add", info |-> node])
    /\ UNCHANGED <<storeVars, deployVars, cancels, tasks, events, emitLog,
                   lastWriter, nticks, poolVars>>

\* Registry.Add, lines 31-33: write the record as offline
RegAddPut(id) ==
    /\ id \in DOMAIN regOps
    /\ regOps[id].op = "add"
    /\ LET info == [regOps[id].info EXCEPT !.Status = NodeOffline, !.LastSeen = HbNow] IN
       /\ nodes' = PutNode(info)
       /\ lastWriter' = Wrote("add", 0, info.Name)
    /\ regOps' = [i \in DOMAIN regOps \ {id} |-> regOps[i]]
    /\ UNCHANGED <<services, deployments, deployVars, cancels, tasks, events, emitLog,
                   nticks, nregops, poolVars>>

\* Registry.Trust, lines 67-70: read the record through Registry.Get
RegTrustBegin(name, fingerprint, encodedHostKey) ==
    /\ nregops < MaxRegOps
    /\ nregops' = nregops + 1
    /\ IF GetNode(name) = Nil
       THEN UNCHANGED regOps
       ELSE regOps' = putJSON(regOps, nregops + 1,
                              [op |-> "trust",
                               info |-> Trusted(GetNode(name), fingerprint, encodedHostKey)])
    /\ UNCHANGED <<storeVars, deployVars, cancels, tasks, events, emitLog,
                   lastWriter, nticks, poolVars>>

\* Registry.Trust, line 74: write the whole record back
RegTrustPut(id) ==
    /\ id \in DOMAIN regOps
    /\ regOps[id].op = "trust"
    /\ nodes' = PutNode(regOps[id].info)
    /\ lastWriter' = Wrote("trust", 0, regOps[id].info.Name)
    /\ regOps' = [i \in DOMAIN regOps \ {id} |-> regOps[i]]
    /\ UNCHANGED <<services, deployments, deployVars, cancels, tasks, events, emitLog,
                   nticks, nregops, poolVars>>

-----------------------------------------------------------------------------
(* remote.Engine: Watch, Unwatch, StopAll and the watchLoop goroutines *)

EventCap == 64

NodeEvent(node, status) == [Node |-> node, Status |-> status]

\* Engine.emit: a send that does not block; the event is dropped on a full channel
emitUnbounded(ch, ev) == Append(ch, ev)
emit(ch, ev) == IF Len(ch) < EventCap THEN Append(ch, ev) ELSE ch

Sent(ch, ev) == Len(ch) < EventCap

\* watchLoop, lines 109-112: the status of the event of a miss
MissStatus(failCount) ==
    IF failCount >= 3 THEN NodeOffline ELSE NodeDegraded

\* watchLoop, line 121: a success after misses is a recovery
RecoveredAlways(failCount) == TRUE
Recovered(failCount) == failCount > 0

\* the fail count the Store holds for a node, -1 for a node that is not there
StoredFailCount(name) ==
    IF GetNode(name) = Nil THEN -1 ELSE GetNode(name).FailCount

\* a watchLoop goroutine: its locals (node, failCount), its position, and the
\* history of what it did: startFail is the stored fail count when it was
\* started; probes, writes and emits are its probe outcomes, its Store writes and
\* the events it put into the channel; tickStore, tickLocal and tickEmits are
\* the stored fail count and the local one when its latest tick fired and the
\* events that tick put into the channel; watches counts the Watch calls that
\* found it running; older holds the ticks of earlier tasks of the node that had
\* probed and missed but not yet emitted when this task was started, each as
\* <<task, number of its probes>>
ProbedNotEmitted(name) ==
    { <<t, Len(tasks[t].probes)>> : t \in { x \in DOMAIN tasks :
          tasks[x].node = name /\ tasks[x].pc \in {"get", "put"} /\ tasks[x].miss } }

NewTask(node) ==
    [node |-> node.Name, info |-> node, failCount |-> 0, pc |-> "wait",
     cancelled |-> FALSE, cancelledBy |-> "", miss |-> FALSE, status |-> "", read |-> Nil,
     startFail |-> StoredFailCount(node.Name),
     probes |-> <<>>, writes |-> <<>>, emits |-> <<>>,
     tickStore |-> -1, tickLocal |-> 0, tickEmits |-> <<>>, watches |-> 0,
     older |-> ProbedNotEmitted(node.Name)]

\* Engine.Watch, line 58: the node has a cancel func already
AlreadyWatchingNever(name) == FALSE
AlreadyWatching(name) == name \in DOMAIN cancels

\* Engine.Watch: start a watchLoop unless the node has a cancel func already
Watch(node) ==
    /\ IF AlreadyWatching(node.Name)
       THEN /\ tasks[cancels[node.Name]].watches < MaxRewatch
            /\ tasks' = [tasks EXCEPT ![cancels[node.Name]].watches = @ + 1]
            /\ UNCHANGED cancels
       ELSE /\ Len(tasks) < MaxTasks
            /\ tasks' = Append(tasks, NewTask(node))
            /\ cancels' = putJSON(cancels, node.Name, Len(tasks) + 1)
    /\ UNCHANGED <<storeVars, deployVars, events, emitLog, lastWriter, regOps,
                   nticks, nregops, poolVars>>

\* cancel(): the context of the tasks ids is done; by names the caller
Cancel(ts, ids, by) ==
    [t \in DOMAIN ts |->
        IF t \in ids THEN [ts[t] EXCEPT !.cancelled = TRUE, !.cancelledBy = by] ELSE ts[t]]

\* delete(e.cancels, name)
ForgetNothing(cs, name) == cs
Forget(cs, name) == [n \in DOMAIN cs \ {name} |-> cs[n]]

\* Engine.Unwatch: cancel the node's task and forget its cancel func
Unwatch(name) ==
    /\ IF name \in DOMAIN cancels
       THEN /\ tasks' = Cancel(tasks, {cancels[name]}, "unwatch")
            /\ cancels' = Forget(cancels, name)
       ELSE UNCHANGED <<cancels, tasks>>
    /\ UNCHANGED <<storeVars, deployVars, events, emitLog, lastWriter, regOps,
                   nticks, nregops, poolVars>>

\* Engine.StopAll
StopAll ==
    /\ tasks' = Cancel(tasks, {cancels[n] : n \in DOMAIN cancels}, "stopall")
    /\ cancels' = EmptyBucket
    /\ UNCHANGED <<storeVars, deployVars, events, emitLog, lastWriter, regOps,
                   nticks, nregops, poolVars>>

\* a goroutine that returned: its locals are gone
Exited(k) ==
    [k EXCEPT !.pc = "exited", !.cancelledBy = "", !.failCount = 0, !.miss = FALSE, !.status = "",
              !.startFail = -1, !.probes = <<>>, !.writes = <<>>, !.emits = <<>>,
              !.tickStore = -1, !.tickLocal = 0, !.tickEmits = <<>>, !.watches = 0,
              !.older = {}]

\* watchLoop, lines 98-99: the select takes ctx.Done
HbExit(t) ==
    /\ t \in DOMAIN tasks
    /\ tasks[t].pc = "wait"
    /\ tasks[t].cancelled
    /\ tasks' = [tasks EXCEPT ![t] = Exited(tasks[t])]
    /\ UNCHANGED <<storeVars, deployVars, cancels, events, emitLog, lastWriter,
                   regOps, nticks, nregops, poolVars>>

\* watchLoop, lines 100-113 and 121-126: the select takes the tick; the probe
\* returns ok or an error. A miss counts up; a success emits the recovery event
\* when the counter was above zero and resets the counter.
TickOf(t, ok) ==
    /\ t \in DOMAIN tasks
    /\ tasks[t].pc = "wait"
    /\ nticks < MaxTicks
    /\ nticks' = nticks + 1
    /\ LET k  == tasks[t]
           ev == NodeEvent(k.node, NodeOnline)
       IN  IF ok
           THEN /\ tasks' = [tasks EXCEPT ![t] =
                       [k EXCEPT !.probes = Append(@, "ok"), !.pc = "get", !.miss = FALSE,
                                 !.failCount = 0,
                                 !.tickStore = StoredFailCount(k.node),
                                 !.tickLocal = k.failCount,
                                 !.emits = IF Recovered(k.failCount) /\ Sent(events, ev)
                                           THEN Append(@, NodeOnline) ELSE @,
                                 !.tickEmits = IF Recovered(k.failCount) /\ Sent(events, ev)
                                               THEN <<NodeOnline>> ELSE <<>>]]
                /\ events' = IF Recovered(k.failCount) THEN emit(events, ev) ELSE events
                /\ emitLog' = IF Recovered(k.failCount) /\ Sent(events, ev)
                              THEN Append(emitLog, ev) ELSE emitLog
           ELSE /\ tasks' = [tasks EXCEPT ![t] =
                       [k EXCEPT !.probes = Append(@, "err"), !.pc = "get", !.miss = TRUE,
                                 !.failCount = @ + 1,
                                 !.tickStore = StoredFailCount(k.node),
                                 !.tickLocal = k.failCount,
                                 !.tickEmits = <<>>,
                                 !.status = MissStatus(k.failCount + 1)]]
                /\ UNCHANGED <<events, emitLog>>

\* the tick with the outcome of the probe left open
HbTick(t, ok) ==
    /\ TickOf(t, ok)
    /\ UNCHANGED <<storeVars, deployVars, cancels, lastWriter, regOps, nregops,
                   poolVars>>

\* the rest of a tick after the store call returned: lines 114-119 emit the event
\* of a miss, a success has nothing left to do
AfterUpdate(k) ==
    LET ev == NodeEvent(k.node, k.status) IN
    [tasks  |-> [k EXCEPT !.pc = "wait", !.read = Nil,
                          !.emits = IF k.miss /\ Sent(events, ev) THEN Append(@, k.status) ELSE @,
                          !.tickEmits = IF k.miss /\ Sent(events, ev)
                                        THEN Append(@, k.status) ELSE @],
     events |-> IF k.miss THEN emit(events, ev) ELSE events,
     log    |-> IF k.miss /\ Sent(events, ev) THEN Append(emitLog, ev) ELSE emitLog]

\* watchLoop, lines 114-116 and 127-129: an error of the store call is logged
\* and the tick goes on as after a call that worked
OnUpdateErrorReturn(k) ==
    [tasks |-> [k EXCEPT !.pc = "exited"], events |-> events, log |-> emitLog]
OnUpdateError(k) == AfterUpdate(k)

\* the tasks after task t finished its tick as k: its tick is no longer one that
\* has not emitted yet
Finished(t, k) ==
    [x \in DOMAIN tasks |->
        IF x = t THEN k ELSE [tasks[x] EXCEPT !.older = {e \in @ : e[1] # t}]]

\* MarkOnline / MarkOffline -> UpdateNodeStatus, lines 103-109: read the record;
\* a node that is not there is an error, which watchLoop logs
HbGetNode(t) ==
    /\ t \in DOMAIN tasks
    /\ tasks[t].pc = "get"
    /\ LET k == tasks[t] IN
       IF GetNode(k.node) = Nil
       THEN LET a == OnUpdateError(k) IN
            /\ tasks' = Finished(t, a.tasks)
            /\ events' = a.events
            /\ emitLog' = a.log
       ELSE /\ tasks' = [tasks EXCEPT ![t] = [k EXCEPT !.pc = "put", !.read = GetNode(k.node)]]
            /\ UNCHANGED <<events, emitLog>>
    /\ UNCHANGED <<storeVars, deployVars, cancels, lastWriter, regOps, nticks,
                   nregops, poolVars>>

\* UpdateNodeStatus, lines 110-113: write the record back with the new status,
\* last-seen and fail count
HbPutNode(t) ==
    /\ t \in DOMAIN tasks
    /\ tasks[t].pc = "put"
    /\ LET k    == tasks[t]
           st   == IF k.miss THEN MarkOfflineStatus(k.failCount) ELSE NodeOnline
           info == WithStatus(k.read, st, k.failCount)
           a    == AfterUpdate([k EXCEPT !.writes = Append(@, <<st, k.failCount>>)])
       IN  /\ nodes' = PutNode(info)
           /\ lastWriter' = Wrote("heartbeat", t, k.node)
           /\ tasks' = Finished(t, a.tasks)
           /\ events' = a.events
           /\ emitLog' = a.log
    /\ UNCHANGED <<services, deployments, deployVars, cancels, regOps, nticks, nregops,
                   poolVars>>

\* the heartbeat engine over a registry that only registers nodes; with one
\* node StopAll is Unwatch, WatchNext has both
HeartbeatNext ==
    \/ \E n \in HbNodes : nregops < MaxAdds /\ RegAddBegin(NewNodeInfo(n))
    \/ \E id \in DOMAIN regOps : RegAddPut(id)
    \/ \E n \in HbNodes :
          n \notin DOMAIN cancels
             /\ Watch(IF GetNode(n) = Nil THEN NewNodeInfo(n) ELSE GetNode(n))
    \/ \E n \in HbNodes : Unwatch(n)
    \/ \E t \in DOMAIN tasks : HbExit(t)
    \/ \E t \in DOMAIN tasks, ok \in BOOLEAN : HbTick(t, ok)
    \/ \E t \in DOMAIN tasks : HbGetNode(t)
    \/ \E t \in DOMAIN tasks : HbPutNode(t)

\* Engine.Watch called again for a node that is being watched, Unwatch and
\* StopAll, over a few ticks
WatchNext ==
    \/ \E n \in HbNodes : nregops < MaxAdds /\ RegAddBegin(NewNodeInfo(n))
    \/ \E id \in DOMAIN regOps : RegAddPut(id)
    \/ \E n \in WatchNodes : Watch(IF GetNode(n) = Nil THEN NewNodeInfo(n) ELSE GetNode(n))
    \/ \E n \in WatchNodes : Unwatch(n)
    \/ StopAll
    \/ \E t \in DOMAIN tasks : HbExit(t)
    \/ \E t \in DOMAIN tasks, ok \in BOOLEAN : nticks < MaxWatchTicks /\ HbTick(t, ok)
    \/ \E t \in DOMAIN tasks : HbGetNode(t)
    \/ \E t \in DOMAIN tasks : HbPutNode(t)

\* Registry calls running concurrently with the ticks of one watched node
RegistryNext ==
    \/ \E n \in HbNodes : RegAddBegin(NewNodeInfo(n))
    \/ \E id \in DOMAIN regOps : RegAddPut(id)
    \/ \E n \in HbNodes, fp \in Fingerprints : RegTrustBegin(n, fp, EncodedKey(fp))
    \/ \E id \in DOMAIN regOps : RegTrustPut(id)
    \/ \E n \in HbNodes :
          Len(tasks) < 1 /\ Watch(IF GetNode(n) = Nil THEN NewNodeInfo(n) ELSE GetNode(n))
    \/ \E t \in DOMAIN tasks, ok \in BOOLEAN : nticks < MaxRegTicks /\ HbTick(t, ok)
    \/ \E t \in DOMAIN tasks : HbGetNode(t)
    \/ \E t \in DOMAIN tasks : HbPutNode(t)

-----------------------------------------------------------------------------
(* remote.Pool: Connect, dial, Run, Disconnect, Close, and the remote hosts *)

KeyPaths == {"", "id_ed25519"}

\* what a dial meets: the key file cannot be read or parsed, the host cannot be
\* reached, the host refuses the key, or the handshake goes through
DialOutcomes == {"ok", "badkey", "unreachable", "authfail"}

\* dial, line 102: the host key callback is overridden only for a node that has a
\* recorded host key
VerifiesHostKeyNever(node) == FALSE
VerifiesHostKey(node) == node.HostKeyKnown /\ node.HostKey # ""

\* dial, lines 84-113: the error of a dial, "" when it returns a client. The TCP
\* connection comes first, then the host key callback, then authentication.
dial(node, outcome) ==
    IF node.Key = "" THEN "nokey"
    ELSE IF outcome = "badkey" THEN "sshconfig"
    ELSE IF outcome = "unreachable" THEN "dial"
    ELSE IF VerifiesHostKey(node) /\ remoteFp[node.Name] # node.KeyFingerprint
         THEN "mismatch"
    ELSE IF outcome = "authfail" THEN "dial"
    ELSE ""

Transport(id, fp) == [id |-> id, alive |-> TRUE, fp |-> fp]

WithoutNothing(cs, name) == cs
Without(cs, name) == [n \in DOMAIN cs \ {name} |-> cs[n]]

\* Connect, line 53: the keepalive request on the pooled client returns no error
AnswersKeepaliveNever(c) == FALSE
AnswersKeepalive(c) == c.alive

\* Connect, lines 47-79, under the mutex: a pooled transport that answers the
\* keepalive is returned as it is; a dead one has its context cancelled and is
\* dropped; then dial is called once, and the new transport is pooled. The
\* result carries the transports whose cancel was called and the calls of dial.
Connect(cs, node, outcome) ==
    IF node.Name \in DOMAIN cs /\ AnswersKeepalive(cs[node.Name])
    THEN [conns |-> cs, err |-> "", reused |-> TRUE, dials |-> 0,
          cancelled |-> {}, attempts |-> 0]
    ELSE LET rest == Without(cs, node.Name)
             err  == dial(node, outcome)
             dead == IF node.Name \in DOMAIN cs THEN {cs[node.Name].id} ELSE {}
         IN  IF err # ""
             THEN [conns |-> rest, err |-> err, reused |-> FALSE, dials |-> 0,
                   cancelled |-> dead, attempts |-> 1]
             ELSE [conns |-> putJSON(rest, node.Name,
                                     Transport(ndials + 1, remoteFp[node.Name])),
                   err |-> "", reused |-> FALSE, dials |-> 1,
                   cancelled |-> dead, attempts |-> 1]

\* the call, its arguments, what the remote presented, whether it returned the
\* pooled transport, whether a transport was pooled when it returned, the
\* client Connect returned (0 for none), its error
PoolCall(op, node, outcome, r, err) ==
    [op |-> op, node |-> node, outcome |-> outcome, presented |-> remoteFp[node.Name],
     reused |-> r.reused, pooled |-> node.Name \in DOMAIN r.conns,
     client |-> IF r.err = "" THEN r.conns[node.Name].id ELSE 0,
     cancelled |-> r.cancelled, attempts |-> r.attempts, err |-> err]

\* p.mu.Lock() returns
MuFree == poolMu = Nil

\* Connect from Lock to Unlock with no other Pool call waiting
PoolConnect(node, outcome) ==
    /\ MuFree
    /\ npoolcalls < MaxPoolCalls
    /\ npoolcalls' = npoolcalls + 1
    /\ LET r == Connect(conns, node, outcome) IN
       /\ conns' = r.conns
       /\ ndials' = ndials + r.dials
       /\ poolLast' = PoolCall("connect", node, outcome, r, r.err)
    /\ UNCHANGED <<storeVars, deployVars, hbVars, remoteFp, poolMu>>

\* Run, lines 117-122: Connect, then the command on the client it returned
RunOf(node, outcome, cmdOk) ==
    /\ MuFree
    /\ npoolcalls < MaxPoolCalls
    /\ npoolcalls' = npoolcalls + 1
    /\ LET r == Connect(conns, node, outcome) IN
       /\ conns' = r.conns
       /\ ndials' = ndials + r.dials
       /\ poolLast' = PoolCall("run", node, outcome, r,
                               IF r.err # "" THEN r.err
                               ELSE IF cmdOk THEN "" ELSE "command")

PoolRun(node, outcome, cmdOk) ==
    /\ RunOf(node, outcome, cmdOk)
    /\ UNCHANGED <<storeVars, deployVars, hbVars, remoteFp, poolMu>>

\* watchLoop, line 102: the probe of a tick is Pool.Run on the NodeInfo the task
\* was started with; the tick misses when Connect or the command fails
HbProbe(t, outcome, cmdOk) ==
    /\ t \in DOMAIN tasks
    /\ RunOf(tasks[t].info, outcome, cmdOk)
    /\ TickOf(t, Connect(conns, tasks[t].info, outcome).err = "" /\ cmdOk)
    /\ UNCHANGED <<storeVars, deployVars, cancels, lastWriter, regOps, nregops,
                   remoteFp, poolMu>>

\* Disconnect, lines 126-135, when the node has an entry
PoolDisconnect(name) ==
    /\ MuFree
    /\ name \in DOMAIN conns
    /\ conns' = Without(conns, name)
    /\ UNCHANGED <<storeVars, deployVars, hbVars, remoteFp, poolLast, ndials, npoolcalls,
                   poolMu>>

\* Close, lines 138-147
PoolClose ==
    /\ MuFree
    /\ conns # EmptyBucket
    /\ conns' = EmptyBucket
    /\ UNCHANGED <<storeVars, deployVars, hbVars, remoteFp, poolLast, ndials, npoolcalls,
                   poolMu>>

\* the network: a pooled transport stops answering
TransportDies(name) ==
    /\ name \in DOMAIN conns
    /\ conns[name].alive
    /\ conns' = [conns EXCEPT ![name].alive = FALSE]
    /\ UNCHANGED <<storeVars, deployVars, hbVars, remoteFp, poolLast, ndials, npoolcalls,
                   poolMu>>

\* the remote: the host behind a node's address presents another host key
RemoteRekey(name, fp) ==
    /\ remoteFp[name] # fp
    /\ remoteFp' = [remoteFp EXCEPT ![name] = fp]
    /\ UNCHANGED <<storeVars, deployVars, hbVars, conns, poolLast, ndials, npoolcalls,
                   poolMu>>

\* Registry.Add and Registry.Trust of a node, the remote changing its host key,
\* and the ticks of the node's watchLoop probing through the pool
ProbeNext ==
    \/ \E n \in HbNodes : nregops < MaxAdds /\ RegAddBegin(NewNodeInfo(n))
    \/ \E id \in DOMAIN regOps : RegAddPut(id)
    \/ \E n \in HbNodes, fp \in Fingerprints :
          nregops < MaxPoolRegOps /\ RegTrustBegin(n, fp, EncodedKey(fp))
    \/ \E id \in DOMAIN regOps : RegTrustPut(id)
    \/ \E n \in HbNodes :
          Len(tasks) < 1 /\ Watch(IF GetNode(n) = Nil THEN NewNodeInfo(n) ELSE GetNode(n))
    \/ \E t \in DOMAIN tasks, o \in DialOutcomes, cmdOk \in BOOLEAN :
          nticks < MaxRegTicks /\ HbProbe(t, o, cmdOk)
    \/ \E t \in DOMAIN tasks : HbGetNode(t)
    \/ \E t \in DOMAIN tasks : HbPutNode(t)
    \/ \E n \in HbNodes : TransportDies(n)
    \/ \E n \in HbNodes, fp \in Fingerprints : RemoteRekey(n, fp)

\* Connect, lines 47-48: Lock; the keepalive request and the dial that follow
\* wait on the network with the mutex held
MuConnectBegin(node) ==
    /\ MuFree
    /\ npoolcalls < MaxPoolCalls
    /\ poolMu' = [node |-> node]
    /\ UNCHANGED <<storeVars, deployVars, hbVars, conns, remoteFp, poolLast, ndials,
                   npoolcalls>>

\* Connect, lines 51-79 and the deferred Unlock: the network answered
MuConnectEnd(outcome) ==
    /\ ~MuFree
    /\ npoolcalls' = npoolcalls + 1
    /\ LET r == Connect(conns, poolMu.node, outcome) IN
       /\ conns' = r.conns
       /\ ndials' = ndials + r.dials
       /\ poolLast' = PoolCall("connect", poolMu.node, outcome, r, r.err)
    /\ poolMu' = Nil
    /\ UNCHANGED <<storeVars, deployVars, hbVars, remoteFp>>

\* Connect, Disconnect and Close called concurrently for two nodes
MutexNext ==
    \/ \E n \in WatchNodes : MuConnectBegin(NewNodeInfo(n))
    \/ \E o \in DialOutcomes : MuConnectEnd(o)
    \/ \E n \in WatchNodes : PoolDisconnect(n)
    \/ PoolClose
    \/ \E n \in WatchNodes : TransportDies(n)

\* `orbit nodes add`, `orbit nodes trust` and pool calls on the registered record
PoolNext ==
    \/ \E n \in HbNodes, k \in KeyPaths :
          nregops < MaxAdds /\ RegAddBegin([NewNodeInfo(n) EXCEPT !.Key = k])
    \/ \E id \in DOMAIN regOps : RegAddPut(id)
    \/ \E n \in HbNodes, fp \in Fingerprints :
          nregops < MaxPoolRegOps /\ RegTrustBegin(n, fp, EncodedKey(fp))
    \/ \E id \in DOMAIN regOps : RegTrustPut(id)
    \/ \E n \in HbNodes, o \in DialOutcomes :
          GetNode(n) # Nil /\ PoolConnect(GetNode(n), o)
    \/ \E n \in HbNodes, o \in DialOutcomes, cmdOk \in BOOLEAN :
          GetNode(n) # Nil /\ PoolRun(GetNode(n), o, cmdOk)
    \/ \E n \in HbNodes : PoolDisconnect(n)
    \/ PoolClose
    \/ \E n \in HbNodes : TransportDies(n)
    \/ \E n \in HbNodes, fp \in Fingerprints : RemoteRekey(n, fp)

-----------------------------------------------------------------------------
(* state.DB and remote.Registry called one call after another by one caller, *)
(* with arguments of any shape                                               *)

\* (status, last seen, fail count) of the NodeInfo values a caller may pass
RuntimeArgs == { <<NodeOffline, 0, 0>>, <<NodeOnline, 7, 2>> }

\* NodeInfo values a caller may pass to PutNode and Registry.Add
NodeArgs ==
    { [NewNodeInfo(n) EXCEPT !.KeyFingerprint = fp, !.HostKey = hk, !.HostKeyKnown = known,
                             !.Status = rt[1], !.LastSeen = rt[2], !.FailCount = rt[3]] :
        n \in HbNodes, fp \in {"", "AA"}, hk \in {"", EncodedKey("AA")}, known \in BOOLEAN,
        rt \in RuntimeArgs }

\* (status, fail count) pairs a caller may pass to UpdateNodeStatus
StatusArgs == { <<NodeOnline, 0>>, <<NodeDegraded, 1>>, <<NodeOffline, 3>> }

\* DeploymentRecord values a caller may pass to PutDeployment
DeploymentArgs ==
    [ID : {"d1", "d2"}, Service : {"web"}, Node : {"local"}, FromImage : {<<>>},
     ToImage : {<<"n">>}, StartedAt : {0}, CompletedAt : {0},
     Result : {"success", "failure"}, Error : {""}]

StorePutNode(info) ==
    /\ nodes' = PutNode(info)
    /\ lastWriter' = Wrote("put", 0, info.Name)
    /\ UNCHANGED <<services, deployments, deployVars, cancels, tasks, events, emitLog,
                   regOps, nticks, nregops, poolVars>>

\* DeleteNode, lines 79-83
StoreDeleteNode(name) ==
    /\ name \in DOMAIN nodes
    /\ nodes' = [n \in DOMAIN nodes \ {name} |-> nodes[n]]
    /\ lastWriter' = Wrote("delete", 0, name)
    /\ UNCHANGED <<services, deployments, deployVars, cancels, tasks, events, emitLog,
                   regOps, nticks, nregops, poolVars>>

\* UpdateNodeStatus, lines 102-113, with no other call running: GetNode, then
\* PutNode of the record with the three fields overwritten; for a node that is
\* not there it returns an error and writes nothing
StoreUpdateNodeStatus(name, status, failCount) ==
    /\ IF GetNode(name) = Nil
       THEN UNCHANGED <<nodes, lastWriter>>
       ELSE /\ nodes' = PutNode(WithStatus(GetNode(name), status, failCount))
            /\ lastWriter' = Wrote("update", 0, name)
    /\ UNCHANGED <<services, deployments, deployVars, cancels, tasks, events, emitLog,
                   regOps, nticks, nregops, poolVars>>

\* NodeInfo values of two node names
UpdateArgs ==
    { [info EXCEPT !.Name = n] : info \in NodeArgs, n \in WatchNodes }

\* put_node, delete_node and update_node_status over two nodes
UpdateNext ==
    \/ \E info \in UpdateArgs : StorePutNode(info)
    \/ \E n \in WatchNodes : StoreDeleteNode(n)
    \/ \E n \in WatchNodes, a \in StatusArgs : StoreUpdateNodeStatus(n, a[1], a[2])

StorePutDeployment(rec) ==
    /\ deployments' = PutDeployment(rec)
    /\ UNCHANGED <<nodes, services, deployVars, hbVars, poolVars>>

StoreNext ==
    \/ \E info \in NodeArgs : StorePutNode(info)
    \/ \E n \in HbNodes : StoreDeleteNode(n)
    \/ \E n \in HbNodes, a \in StatusArgs : StoreUpdateNodeStatus(n, a[1], a[2])
    \/ \E info \in NodeArgs : nregops < MaxStoreRegOps /\ regOps = EmptyBucket /\ RegAddBegin(info)
    \/ \E id \in DOMAIN regOps : RegAddPut(id)
    \/ \E n \in HbNodes, fp \in {"", "AA"}, hk \in {"", EncodedKey("AA")} :
          nregops < MaxStoreRegOps /\ regOps = EmptyBucket /\ RegTrustBegin(n, fp, hk)
    \/ \E id \in DOMAIN regOps : RegTrustPut(id)
    \/ \E rec \in DeploymentArgs : StorePutDeployment(rec)

-----------------------------------------------------------------------------
(* Initial state: an empty store, an empty runtime, nothing running *)

Init ==
    /\ nodes = EmptyBucket
    /\ services = EmptyBucket
    /\ deployments = EmptyBucket
    /\ containers = EmptyBucket
    /\ nextId = 0
    /\ now = 0
    /\ dpc = "idle"
    /\ dep = DepIdle
    /\ ndeploys = 0
    /\ cancels = EmptyBucket
    /\ tasks = <<>>
    /\ events = <<>>
    /\ emitLog = <<>>
    /\ lastWriter = EmptyBucket
    /\ regOps = EmptyBucket
    /\ nticks = 0
    /\ nregops = 0
    /\ conns = EmptyBucket
    /\ remoteFp = [n \in WatchNodes |-> "AA"]
    /\ poolLast = Nil
    /\ poolMu = Nil
    /\ ndials = 0
    /\ npoolcalls = 0

SpecDeploy == Init /\ [][DeployNext]_vars

SpecHeartbeat == Init /\ [][HeartbeatNext]_vars

SpecRegistry == Init /\ [][RegistryNext]_vars

SpecPool == Init /\ [][PoolNext]_vars

SpecStore == Init /\ [][StoreNext]_vars

SpecWatch == Init /\ [][WatchNext]_vars
SpecResolve == Init /\ [][ResolveNext]_vars
SpecDown == Init /\ [][DownNext]_vars
SpecPrior == Init /\ [][PriorNext]_vars
SpecMutex == Init /\ [][MutexNext]_vars
SpecUpdate == Init /\ [][UpdateNext]_vars
SpecProbe == Init /\ [][ProbeNext]_vars

\* the watchLoop of node name after k ticks that all missed, started on the
\* registered node, with nothing having drained the channel
TaskAfterMisses(name, k) ==
    [node |-> name, info |-> NewNodeInfo(name), failCount |-> k, pc |-> "wait",
     cancelled |-> FALSE, cancelledBy |-> "", miss |-> TRUE, status |-> MissStatus(k),
     read |-> Nil, startFail |-> 0,
     probes |-> [i \in 1..k |-> "err"],
     writes |-> [i \in 1..k |-> <<MarkOfflineStatus(i), i>>],
     emits |-> [i \in 1..k |-> MissStatus(i)],
     tickStore |-> k - 1, tickLocal |-> k - 1, tickEmits |-> <<MissStatus(k)>>,
     watches |-> 0, older |-> {}]

\* the events of those k ticks
EventsAfterMisses(name, k) == [i \in 1..k |-> NodeEvent(name, MissStatus(i))]

\* Registry.Add and Engine.Watch of node name followed by k missed ticks
AfterMisses(name, k) ==
    /\ nodes = putJSON(EmptyBucket, name,
                        WithStatus(NewNodeInfo(name), MarkOfflineStatus(k), k))
    /\ cancels = putJSON(EmptyBucket, name, 1)
    /\ tasks = <<TaskAfterMisses(name, k)>>
    /\ events = EventsAfterMisses(name, k)
    /\ emitLog = EventsAfterMisses(name, k)
    /\ lastWriter = putJSON(EmptyBucket, name, Writer("heartbeat", 1))
    /\ regOps = EmptyBucket
    /\ nregops = 1

\* one event short of a full channel: the state EventCap - 1 missed ticks after
\* Add and Watch; the ticks of the model are counted from here
InitBacklog ==
    /\ services = EmptyBucket
    /\ deployments = EmptyBucket
    /\ containers = EmptyBucket
    /\ nextId = 0
    /\ now = 0
    /\ dpc = "idle"
    /\ dep = DepIdle
    /\ ndeploys = 0
    /\ AfterMisses("n1", EventCap - 1)
    /\ nticks = 0
    /\ conns = EmptyBucket
    /\ remoteFp = [n \in WatchNodes |-> "AA"]
    /\ poolLast = Nil
    /\ poolMu = Nil
    /\ ndials = 0
    /\ npoolcalls = 0

\* the watchLoop going on with nothing draining the channel
BacklogNext ==
    \/ \E n \in HbNodes : Unwatch(n)
    \/ \E t \in DOMAIN tasks : HbExit(t)
    \/ \E t \in DOMAIN tasks, ok \in BOOLEAN : HbTick(t, ok)
    \/ \E t \in DOMAIN tasks : HbGetNode(t)
    \/ \E t \in DOMAIN tasks : HbPutNode(t)

SpecBacklog == InitBacklog /\ [][BacklogNext]_vars

-----------------------------------------------------------------------------
(* Properties of Deployer.Deploy, checked under SpecDeploy *)

DeployDone     == dpc = "done" /\ ~dep.opts.DryRun
Succeeded      == DeployDone /\ dep.ret = NoErr
StoredState    == GetServiceState(dep.node, dep.spec.Name)
PriorState     == getJSON(dep.pre, ServiceKey(dep.node, dep.spec.Name))
CallsOf(op)    == {i \in 1..Len(dep.calls) : dep.calls[i].op = op}
\* Deploy read the store and found no ServiceState
FirstTime      == DeployDone /\ Len(dep.calls) >= 1 /\ dep.calls[1].ok /\ dep.existing = Nil
\* every probe attempt of the retry budget failed
AllProbesFailed == DeployDone /\ dep.healthErr = "attempts"
\* the shadow was stopped with remove, and is gone when the runtime did so
ShadowStopped  ==
    \E i \in CallsOf("stop") :
        /\ dep.calls[i].target = dep.newID
        /\ dep.calls[i].ok => dep.newID \notin DOMAIN containers

\* C1: every Deploy that is not a dry run and reaches a terminal outcome has
\* appended exactly one DeploymentRecord to the deployments bucket when it returns.
C1_TerminalDeployAppendsOneRecord ==
    DeployDone =>
        Cardinality(DOMAIN deployments) = Cardinality(DOMAIN dep.preDeployments) + 1

C3_HealthFailRollsBack ==
    (AllProbesFailed /\ dep.existing # Nil
        /\ dep.spec.Deploy # Nil /\ dep.spec.Deploy.RollbackOnFailure) =>
        /\ ShadowStopped
        /\ \E i \in CallsOf("run") :
              /\ dep.calls[i].name = dep.spec.Name
              /\ dep.calls[i].image = dep.existing.Image
        /\ TerminalResult(dep.ret) = "rolledback"
        /\ StoredState = dep.existing

FirstTimeNoPriorTouched ==
    /\ \A i \in CallsOf("stop") : dep.calls[i].target = dep.newID
    /\ Cardinality(CallsOf("run")) <= 1
    /\ \A i \in CallsOf("run") : dep.calls[i].name = dep.newName
    /\ dep.healthErr # "" =>
          (TerminalResult(dep.ret) = "failure" /\ dep.ret.Advice # "")

C6_RecordMatchesOutcome ==
    DeployDone =>
        \E id \in DOMAIN deployments \ DOMAIN dep.preDeployments :
            LET D == deployments[id] IN
            /\ D.Service = dep.spec.Name /\ D.Node = dep.node
            /\ D.Result = TerminalResult(dep.ret)
            /\ D.CompletedAt >= D.StartedAt
            /\ D.FromImage = (IF dep.existing = Nil THEN <<>> ELSE dep.existing.Image)
            /\ D.ToImage = dep.image
            /\ (D.Error # "") <=> (D.Result # "success")

-----------------------------------------------------------------------------
(* Properties of the heartbeat, checked under SpecRegistry and SpecHeartbeat *)

\* the threshold function of a fail count
Threshold(failCount) ==
    IF failCount = 0 THEN NodeOnline
    ELSE IF failCount < 3 THEN NodeDegraded ELSE NodeOffline

Last(s) == s[Len(s)]

\* some watchLoop of node n has finished a tick that wrote n's record
TickWrote(n) ==
    \E t \in DOMAIN tasks :
        tasks[t].node = n /\ tasks[t].pc = "wait" /\ tasks[t].writes # <<>>

\* C7: after a heartbeat tick for a watched node has written the node's record,
\* the stored status is the threshold of the stored fail count, also when
\* Registry.Add and Registry.Trust on the node run concurrently with the ticks.
C7_StatusIsThresholdOfFailCount ==
    \A n \in HbNodes :
        (TickWrote(n) /\ GetNode(n) # Nil) =>
            GetNode(n).Status = Threshold(GetNode(n).FailCount)

\* the watchLoop t ran its ticks on a node that was registered when it started
\* (nothing removes a node here) and is between two ticks
Settled(t) == tasks[t].pc = "wait" /\ tasks[t].startFail # -1

C8Probes == <<"ok", "ok", "err", "err", "err", "ok">>

RecoveryFromFive(t) ==
    /\ tasks[t].pc = "wait"
    /\ tasks[t].probes # <<>> /\ Last(tasks[t].probes) = "ok"
    /\ tasks[t].tickStore = 5

\* the tick wrote online with fail count 0, and the record holds that as long as
\* nothing else wrote it since
WroteOnlineZero(t) ==
    /\ tasks[t].writes # <<>> /\ Last(tasks[t].writes) = <<NodeOnline, 0>>
    /\ lastWriter[tasks[t].node] = Writer("heartbeat", t) =>
          /\ GetNode(tasks[t].node).Status = NodeOnline
          /\ GetNode(tasks[t].node).FailCount = 0

\* C9 as claimed: a successful probe at stored fail count 5 makes the record
\* online with fail count 0 and emits exactly one online event, whether the
\* watchLoop counted the five misses itself or was started after they were
\* persisted.
C9_RecoveryFromFive_Claimed ==
    \A t \in DOMAIN tasks :
        (RecoveryFromFive(t)
            /\ (tasks[t].tickLocal = 5
                   \/ (tasks[t].startFail = 5 /\ Len(tasks[t].probes) = 1))) =>
            /\ WroteOnlineZero(t)
            /\ tasks[t].tickEmits = <<NodeOnline>>

\* C9 as amended: a successful probe at stored fail count 5 makes the record
\* online with fail count 0; it emits exactly one online event when the
\* watchLoop's own counter is above zero (so when it counted the five misses
\* itself) and no event when its own counter is zero, which is the case of a
\* watchLoop started after the five misses were persisted.
C9_RecoveryFromFive ==
    \A t \in DOMAIN tasks :
        RecoveryFromFive(t) =>
            /\ WroteOnlineZero(t)
            /\ tasks[t].tickEmits =
                  (IF tasks[t].tickLocal > 0 THEN <<NodeOnline>> ELSE <<>>)
            /\ tasks[t].tickLocal = 5 => tasks[t].tickEmits = <<NodeOnline>>
            /\ (tasks[t].startFail = 5 /\ Len(tasks[t].probes) = 1) =>
                  tasks[t].tickEmits = <<>>

C9_Witness ==
    \E t \in DOMAIN tasks :
        /\ RecoveryFromFive(t)
        /\ tasks[t].startFail = 5 /\ Len(tasks[t].probes) = 1
        /\ lastWriter[tasks[t].node] = Writer("heartbeat", t)

-----------------------------------------------------------------------------
(* Properties of the connection pool, checked under SpecPool *)

\* the last pool call was made for a node with host_key_known and a stored
\* fingerprint while the remote presented a host key with another fingerprint:
\* the node has a key path, the key file loads and the host is reached
MismatchCase ==
    /\ poolLast # Nil
    /\ poolLast.node.HostKeyKnown
    /\ poolLast.node.KeyFingerprint # ""
    /\ poolLast.presented # poolLast.node.KeyFingerprint
    /\ poolLast.node.Key # ""
    /\ poolLast.outcome \in {"ok", "authfail"}

MismatchReturned ==
    /\ poolLast.err = "mismatch"
    /\ ~poolLast.pooled
    /\ poolLast.node.Name \notin DOMAIN conns

-----------------------------------------------------------------------------
(* Properties of the Store's node operations, checked under SpecRegistry *)

\* C11: UpdateNodeStatus reads and writes back in one transaction: between its
\* read of the node record and its write no other write to the nodes bucket
\* takes effect, so at its write the bucket still holds the record it read.
C11_UpdateNodeStatusAtomic ==
    \A t \in DOMAIN tasks :
        tasks[t].pc = "put" => GetNode(tasks[t].node) = tasks[t].read

\* C12: DeploymentRecords are append-only: every record ListDeployments returns
\* is returned with the same id and the same contents after any Store call,
\* PutDeployment with an id that is already present included.
C12_DeploymentsAppendOnly ==
    [][\A r \in ListDeployments("") : r \in ListDeployments("")']_vars

\* C13: every stored NodeInfo with host_key_known has a non-empty fingerprint
\* and a non-empty encoded host key, whatever the arguments of the PutNode,
\* Registry.Add, Registry.Trust and UpdateNodeStatus calls were.
C13_KnownHostKeyIsRecorded ==
    \A n \in DOMAIN nodes :
        nodes[n].HostKeyKnown => (nodes[n].KeyFingerprint # "" /\ nodes[n].HostKey # "")

-----------------------------------------------------------------------------
(* Properties of Engine.Watch, Unwatch and StopAll, checked under SpecWatch *)

\* the watchLoops of node n that have not been cancelled
LiveTasks(n) ==
    {t \in DOMAIN tasks : tasks[t].node = n /\ ~tasks[t].cancelled}

\* at most one uncancelled watchLoop per node, the one the cancel map names;
\* each of its ticks is one probe, at most one Store write and at most one event
OneTaskPerNode ==
    /\ \A n \in WatchNodes :
          /\ Cardinality(LiveTasks(n)) <= 1
          /\ n \in DOMAIN cancels => LiveTasks(n) = {cancels[n]}
    /\ \A t \in DOMAIN tasks :
          /\ Len(tasks[t].writes) <= Len(tasks[t].probes)
          /\ Len(tasks[t].tickEmits) <= 1

\* a Watch call for a node that is being watched changes nothing but the count
\* of such calls
RewatchChangesNothing ==
    \A t \in DOMAIN tasks :
        tasks'[t].watches > tasks[t].watches =>
            /\ tasks' = [tasks EXCEPT ![t].watches = tasks'[t].watches]
            /\ UNCHANGED <<storeVars, cancels, events, emitLog, nticks>>

\* C14: Watch is idempotent: a second Watch of a node that is in the cancel map
\* starts nothing and changes nothing, so a node has at most one uncancelled
\* watchLoop, and each tick of it is one probe, at most one Store write and at
\* most one event.
C14_WatchIdempotent ==
    []OneTaskPerNode /\ [][RewatchChangesNothing]_vars

C14_Witness ==
    \E t \in DOMAIN tasks :
        /\ tasks[t].watches >= 1 /\ ~tasks[t].cancelled
        /\ tasks[t].pc = "wait" /\ Len(tasks[t].probes) >= 1
        /\ Len(tasks[t].writes) = Len(tasks[t].probes)

\* the cancel map names only watchLoops that run uncancelled for that node
CancelMapNamesLive ==
    \A n \in DOMAIN cancels :
        /\ cancels[n] \in DOMAIN tasks
        /\ tasks[cancels[n]].node = n
        /\ ~tasks[cancels[n]].cancelled

\* a node enters the cancel map only with a watchLoop that has just been
\* started: nothing probed, the counter at zero, not cancelled
WatchStartsFresh ==
    \A n \in WatchNodes :
        (n \notin DOMAIN cancels /\ n \in DOMAIN cancels') =>
            /\ Len(tasks') = Len(tasks) + 1
            /\ cancels'[n] = Len(tasks')
            /\ tasks'[Len(tasks')].node = n
            /\ tasks'[Len(tasks')].pc = "wait"
            /\ tasks'[Len(tasks')].failCount = 0
            /\ tasks'[Len(tasks')].probes = <<>>
            /\ ~tasks'[Len(tasks')].cancelled

\* Unwatch cancels the node's watchLoop and takes the node out of the cancel
\* map; StopAll cancels every watchLoop of the map and leaves the map empty
CancelForgets ==
    \A t \in DOMAIN tasks :
        (~tasks[t].cancelled /\ tasks'[t].cancelled) =>
            /\ tasks[t].node \in DOMAIN cancels /\ cancels[tasks[t].node] = t
            /\ tasks[t].node \notin DOMAIN cancels'
            /\ tasks'[t].cancelledBy = "stopall" => cancels' = EmptyBucket

\* C15: Watch, Unwatch and StopAll take effect one at a time; Unwatch and
\* StopAll leave no entry behind for what they cancelled, so a Watch of a node
\* after its Unwatch, or of any node after StopAll, is never taken as already
\* watching and starts a fresh watchLoop.
C15_WatchAfterUnwatchIsFresh ==
    []CancelMapNamesLive /\ [][WatchStartsFresh /\ CancelForgets]_vars

C15_Witness ==
    \E t1, t2 \in DOMAIN tasks :
        /\ t1 < t2 /\ tasks[t1].node = tasks[t2].node
        /\ tasks[t1].cancelled
        /\ tasks[t2].node \in DOMAIN cancels /\ cancels[tasks[t2].node] = t2
        /\ ~tasks[t2].cancelled /\ tasks[t2].failCount = 0

\* ---- C16 ----
\* the channel holds at most its capacity
ChannelBounded == Len(events) <= EventCap

\* every tick of a registered node has written the Store once the task is
\* back at its select, and all but the tick in progress while it is in the
\* store call
StoreWritesContinue ==
    \A t \in DOMAIN tasks :
        Len(tasks[t].writes) =
            IF tasks[t].pc \in {"get", "put"} THEN Len(tasks[t].probes) - 1
            ELSE Len(tasks[t].probes)

\* a step on a full channel leaves the channel as it is: the event is dropped
DropOnFull == Len(events) = EventCap => events' = events

\* C16: the event channel never holds more than 64 events; an emit on a full
\* channel drops the event and does not stop the task: with nothing draining
\* the channel every tick still writes the Store and the next tick follows.
C16_FullChannelDropsAndGoesOn ==
    []ChannelBounded /\ []StoreWritesContinue /\ [][DropOnFull]_vars

\* the channel is full, a missed tick found it full and dropped its event after
\* writing the Store, and that was at least the second tick on a full channel
C16_Witness ==
    /\ Len(events) = EventCap
    /\ \E t \in DOMAIN tasks :
          /\ tasks[t].pc = "wait"
          /\ Len(tasks[t].probes) >= EventCap + 2
          /\ Last(tasks[t].probes) = "err"
          /\ tasks[t].tickEmits = <<>>
          /\ Len(tasks[t].writes) = Len(tasks[t].probes)
          /\ Last(tasks[t].writes) = <<NodeOffline, tasks[t].failCount>>

\* ---- C17 ----
\* a step that is a Connect, alone or inside Run
ConnectStep == npoolcalls' = npoolcalls + 1

\* a Connect for a node whose pooled transport answers returns that transport,
\* leaves the pool as it is and does not dial
ReturnsPooled ==
    \A n \in DOMAIN conns :
        conns[n].alive /\ ConnectStep /\ poolLast'.node.Name = n =>
            /\ poolLast'.client = conns[n].id
            /\ poolLast'.reused
            /\ conns' = conns
            /\ ndials' = ndials

\* a dial is made only for a node with no answering transport in the pool, and
\* the transport it gives is the one pooled for the node
DialsOnlyWithoutLive ==
    ndials' # ndials =>
        /\ ConnectStep
        /\ ndials' = ndials + 1
        /\ LET n == poolLast'.node.Name IN
           /\ ~(n \in DOMAIN conns /\ conns[n].alive)
           /\ n \in DOMAIN conns' /\ conns'[n].id = ndials' /\ conns'[n].alive

\* the transports in the pool are transports that were dialled, one per name
PooledWereDialled ==
    \A n \in DOMAIN conns :
        /\ conns[n].id \in 1..ndials
        /\ \A m \in DOMAIN conns : conns[m].id = conns[n].id => m = n

\* C17: Connect after Connect for the same node returns the same transport
\* while it answers the keepalive; the pool holds one transport per node name
\* and no dial is made for a node whose transport is alive. Connect holds the
\* pool mutex from entry to return, so concurrent calls run one after another.
C17_ConnectReusesLiveTransport ==
    []PooledWereDialled /\ [][ReturnsPooled /\ DialsOnlyWithoutLive]_vars

\* two Connects for the node, the second returned the transport the first
\* dialled, and one dial was made
C17_Witness ==
    /\ poolLast # Nil
    /\ poolLast.op = "connect"
    /\ poolLast.reused
    /\ npoolcalls >= 2
    /\ ndials = 1
    /\ poolLast.node.Name \in DOMAIN conns
    /\ poolLast.client = conns[poolLast.node.Name].id

\* ---- C18 ----
\* a Deploy whose health check is configured with retries = n
WaitingWithRetries(n) ==
    /\ dep.spec # Nil
    /\ dep.spec.HealthCheck # Nil
    /\ dep.spec.HealthCheck.Retries = n

\* C18: with retries = 0 configured WaitHealthy makes one probe attempt and no
\* sleep, and a failure of that attempt ends the wait.
C18_ZeroRetriesOneAttempt ==
    WaitingWithRetries(0) =>
        /\ dep.probes <= 1
        /\ dep.sleeps = 0
        /\ dep.attempt >= 1 => dpc # "wait"

\* ---- C19 ----
\* the wait of the running Deploy is over with every attempt failed
WaitExhausted == dep.healthErr = "attempts"

\* a sleep comes before every attempt but the first: after p probes there have
\* been p - 1 sleeps, none before the first probe
SleepsBetweenAttempts ==
    dep.spec # Nil => dep.sleeps = (IF dep.probes = 0 THEN 0 ELSE dep.probes - 1)

\* with retries = n >= 1 and every probe failing the wait ends after n + 1 probes
\* and n sleeps, not before
AttemptsOfRetries ==
    \A n \in 1..2 :
        WaitingWithRetries(n) =>
            /\ dep.probes <= n + 1
            /\ WaitExhausted => dep.probes = n + 1 /\ dep.sleeps = n
            /\ dep.attempt = n + 1 => WaitExhausted

\* a probe that passes is the last probe of the call
StopsAtFirstPass ==
    dep.probes > dep.attempt => dep'.probes = dep.probes \/ dpc' = "idle"

CancelObserved == dep.healthErr = "context"

\* C20: once WaitHealthy has observed the cancellation no further probe is
\* started and Deploy makes no further call on the runtime.
C20_NoCallsAfterCancel ==
    [][CancelObserved /\ dpc' # "idle" =>
          /\ dep'.probes = dep.probes
          /\ dep'.calls = dep.calls
          /\ containers' = containers]_vars

\* ---- C21 ----
\* the positions (from 1) of the colons of an image reference
Colons(image) == {i \in 1..Len(image) : image[i] = ":"}

\* the image the tag override asks for: the text up to and including the final
\* colon followed by the tag, or the image, a colon and the tag
ImageWithTag(image, tag) ==
    IF tag = <<>> THEN image
    ELSE IF Colons(image) = {} THEN image \o <<":">> \o tag
    ELSE LET p == CHOOSE i \in Colons(image) : \A j \in Colons(image) : j <= i
         IN  SubSeq(image, 1, p) \o tag

\* C21: with a tag override the new image is the spec image with what follows
\* its final colon replaced by the tag, or the image, a colon and the tag when
\* it has no colon; with an empty override it is the spec image.
C21_ImageResolution ==
    /\ dep.spec # Nil => dep.image = ImageWithTag(dep.spec.Image, dep.opts.Tag)
    /\ ResolveImage(<<"n", ":", "1">>, <<"2">>) = <<"n", ":", "2">>
    /\ ResolveImage(<<"n">>, <<"2">>) = <<"n", ":", "2">>

\* a Deploy of an image with a registry port and a tag, with a tag override
C21_Witness ==
    /\ dep.spec # Nil
    /\ dep.spec.Image = <<"r", ":", "5", "/", "n", ":", "1">>
    /\ dep.opts.Tag = <<"x", "y", "z">>
    /\ dep.image = <<"r", ":", "5", "/", "n", ":", "x", "y", "z">>

\* ---- C22 ----
\* the timeout by the rule of the claim: the option when positive, else the
\* health check's timeout times (retries + 2) when there is a health check,
\* else the default
TimeoutByRule(spec, opts) ==
    IF opts.Timeout > 0 THEN opts.Timeout
    ELSE IF spec.HealthCheck # Nil
         THEN spec.HealthCheck.Timeout * (spec.HealthCheck.Retries + 2)
    ELSE DefaultDeployTimeout

\* C22: the effective timeout is opts.timeout when positive, otherwise
\* hc.timeout * (hc.retries + 2) when the spec has a health check, with or
\* without a deploy sub-spec, otherwise 120 s.
C22_EffectiveTimeout ==
    dep.spec # Nil => dep.timeout = TimeoutByRule(dep.spec, dep.opts)

\* ---- C23 ----
\* x with status, last-seen and fail-count reset to offline, now and 0
ResetOf(x) == [x EXCEPT !.Status = NodeOffline, !.LastSeen = HbNow, !.FailCount = 0]

\* C23: put_node(x) followed by get_node(x.name) returns x with status,
\* last-seen and fail-count reset to offline, now and 0 and every other field
\* as in x; stated for DB.PutNode and for the PutNode of Registry.Add.
C23_PutThenGetIsReset ==
    [][/\ \A x \in NodeArgs :
              StorePutNode(x) => getJSON(nodes', x.Name) = ResetOf(x)
       /\ \A id \in DOMAIN regOps :
              RegAddPut(id) =>
                  getJSON(nodes', regOps[id].info.Name) = ResetOf(regOps[id].info)]_vars

\* ---- C24 ----
\* the running Deploy call is a dry run
DryRunning == dep.opts # Nil /\ dep.opts.DryRun

\* a dry run has returned nil straight from its start, with no call made on the
\* store or the runtime
DryRunReturnsAtOnce ==
    DryRunning => dpc = "done" /\ dep.ret = NoErr /\ dep.calls = <<>>

\* the step that starts a dry run and the step that ends it leave the store and
\* the runtime as they are
DryRunChangesNothing ==
    DryRunning \/ (dep'.opts # Nil /\ dep'.opts.DryRun) =>
        UNCHANGED <<nodes, services, deployments, containers, nextId>>

\* C24: a dry-run Deploy returns success and changes nothing: no Store read or
\* write and no runtime call, for every spec, node and tag override.
C24_DryRunIsInert ==
    []DryRunReturnsAtOnce /\ [][DryRunChangesNothing]_vars

\* a dry run with a tag override on the second node, over a store and a runtime
\* that an earlier Deploy filled
C24_Witness ==
    /\ DryRunning
    /\ dpc = "done"
    /\ dep.node = "n1"
    /\ dep.opts.Tag # <<>>
    /\ services # EmptyBucket
    /\ containers # EmptyBucket

\* ---- C25 ----
\* a step that is Down(node, names) returning nil
DownStep(node, names) ==
    \E outs \in [DeployServices -> StopOutcomes] : Down(node, names, outs)

\* C25: after Down succeeds for service S on node N, get_service_state(N, S)
\* returns none and list_service_states(N) no longer contains S.
C25_DownDestroysServiceState ==
    [][\A node \in AnyNodes, names \in DownNames :
          DownStep(node, names) =>
              \A s \in DownTargets(node, names) :
                  /\ getJSON(services', ServiceKey(node, s.Name)) = Nil
                  /\ \A k \in DOMAIN services' :
                        services'[k].Node = node => services'[k].Name # s.Name]_vars

\* ---- C26 ----
\* the Deploy call has returned the error of one of its first three phases
EarlyFailure ==
    /\ dpc = "done"
    /\ dep.ret.Code \in {"ERR-STATE-001", "ERR-DOCKER-002", "ERR-DOCKER-003"}

\* the error kind of the phase whose call failed
KindOfPhase(op) ==
    CASE op = "getstate" -> "ERR-STATE-001"
      [] op = "pull"     -> "ERR-DOCKER-002"
      [] op = "run"      -> "ERR-DOCKER-003"
      [] OTHER           -> ""

\* the failed call is the last one made, its phase is the one the error names,
\* no stop or rename was issued and the only start is the shadow's
EarlyFailureIsClean ==
    EarlyFailure =>
        /\ dep.calls # <<>>
        /\ ~Last(dep.calls).ok
        /\ dep.ret.Code = KindOfPhase(Last(dep.calls).op)
        /\ \A i \in 1..Len(dep.calls) :
              /\ dep.calls[i].op \in {"getstate", "pull", "run"}
              /\ dep.calls[i].op = "run" => dep.calls[i].name # dep.spec.Name
        /\ services = dep.pre

\* a failed state read, pull or shadow start is reported as such
PhaseFailureIsReported ==
    /\ dpc = "done"
    /\ dep.calls # <<>>
    /\ ~Last(dep.calls).ok
    /\ Last(dep.calls).op \in {"getstate", "pull", "run"}
    /\ Last(dep.calls).name # dep.spec.Name
    => dep.ret.Code = KindOfPhase(Last(dep.calls).op)

\* the steps of the three phases leave every container there was as it was
FirstPhasesKeepContainers ==
    dpc \in {"getstate", "pull", "run"} =>
        /\ services' = services
        /\ \A c \in DOMAIN containers :
              c \in DOMAIN containers' /\ containers'[c] = containers[c]

\* C26: a Deploy that fails loading the state, pulling or starting the shadow
\* leaves the prior container untouched, starts no rollback container, leaves
\* the ServiceState as it was and returns the error kind of the failed phase.
C26_EarlyFailureTouchesNothing ==
    []EarlyFailureIsClean /\ []PhaseFailureIsReported /\ [][FirstPhasesKeepContainers]_vars

\* the pull failed on a Deploy over a prior state whose container is running
C26_Witness ==
    /\ EarlyFailure
    /\ dep.ret.Code = "ERR-DOCKER-002"
    /\ dep.existing # Nil
    /\ dep.existing.ContainerID \in DOMAIN containers
    /\ containers[dep.existing.ContainerID].running

\* ---- C27 ----
\* Deploy has a prior container to stop
HasPrior == dep.existing # Nil /\ dep.existing.ContainerID # ""

\* the calls of a Deploy that returned success end with the stop of the prior
\* container (when there is one), the rename of the shadow to the service name
\* and the write of the ServiceState, in that order
PromoteInOrder ==
    Succeeded =>
        LET n == Len(dep.calls) IN
        /\ n >= 3
        /\ dep.calls[n].op = "putstate"
        /\ dep.calls[n - 1].op = "rename"
        /\ dep.calls[n - 1].target = dep.newID
        /\ dep.calls[n - 1].name = dep.spec.Name
        /\ IF HasPrior
           THEN /\ dep.calls[n - 2].op = "stop"
                /\ dep.calls[n - 2].target = dep.existing.ContainerID
           ELSE dep.calls[n - 2].op # "stop"

\* once the rename has been issued Deploy returns success, whatever the stop and
\* the rename answered, and the ServiceState it persists names the shadow
PromoteSucceeds ==
    DeployDone /\ CallsOf("rename") # {} =>
        /\ dep.ret = NoErr
        /\ dep.putOk =>
              /\ StoredState # Nil
              /\ StoredState.ContainerID = dep.newID
              /\ StoredState.Image = dep.image
              /\ StoredState.Status = "healthy"

\* C27: Promote stops and removes the prior container, renames the shadow to the
\* service name and persists the ServiceState, in that order; a failed stop or
\* rename does not change the outcome: Deploy returns success and the persisted
\* ServiceState has the shadow's id, the new image and status healthy.
C27_PromoteOrderAndBestEffort ==
    PromoteInOrder /\ PromoteSucceeds

\* the stop of the prior container and the rename both failed, Deploy returned
\* success and the persisted state names the shadow
C27_Witness ==
    /\ Succeeded
    /\ HasPrior
    /\ \E i \in CallsOf("stop") : ~dep.calls[i].ok
    /\ \E i \in CallsOf("rename") : ~dep.calls[i].ok
    /\ dep.putOk
    /\ StoredState.ContainerID = dep.newID
    /\ dep.newID \in DOMAIN containers
    /\ containers[dep.newID].name = dep.newName

\* ---- C28 ----
\* the prior ServiceState has an empty or short container id, or names a
\* container that is not on the runtime
PriorIsStale ==
    /\ dep.existing # Nil
    /\ \/ dep.existing.ContainerID \in ShortIds
       \/ dep.existing.ContainerID \notin DOMAIN containers

\* the health check failed on every attempt and the rollback is enabled
RollbackCase ==
    /\ dep.healthErr = "attempts"
    /\ dep.spec.Deploy # Nil /\ dep.spec.Deploy.RollbackOnFailure

\* C28: with a prior ServiceState whose container id is empty or short or whose
\* container is gone, a health failure with rollback enabled still attempts the
\* rollback, Deploy returns normally with the terminal result rolledback, and no
\* step aborts the Deploy.
C28_StaleRollbackIsBestEffort ==
    /\ (RollbackCase /\ PriorIsStale) => dpc # "panic"
    /\ (dpc = "done" /\ RollbackCase /\ PriorIsStale) =>
          /\ \E i \in CallsOf("run") :
                dep.calls[i].name = dep.spec.Name /\ dep.calls[i].image = dep.existing.Image
          /\ TerminalResult(dep.ret) = "rolledback"

\* ---- C29 ----
\* the Connect of the step found a pooled transport for node n that does not
\* answer the keepalive
FoundStale(n) ==
    /\ ConnectStep
    /\ poolLast'.node.Name = n
    /\ n \in DOMAIN conns
    /\ ~conns[n].alive

\* Connect returned an error
ConnectFailed(call) == call.err \notin {"", "command"}

\* the stale entry is evicted with its context cancelled, dial is called once,
\* and either the fresh transport is pooled and returned or the error is
\* returned and the node has no entry
StaleIsReplaced ==
    \A n \in DOMAIN conns :
        FoundStale(n) =>
            /\ poolLast'.cancelled = {conns[n].id}
            /\ poolLast'.attempts = 1
            /\ ~poolLast'.reused
            /\ IF ConnectFailed(poolLast')
               THEN /\ n \notin DOMAIN conns'
                    /\ poolLast'.client = 0
                    /\ ndials' = ndials
               ELSE /\ n \in DOMAIN conns'
                    /\ conns'[n].alive
                    /\ conns'[n].id # conns[n].id
                    /\ poolLast'.client = conns'[n].id
                    /\ ndials' = ndials + 1

\* C29: when a pooled transport fails its keepalive request the next connect
\* for the node evicts the stale entry, cancelling its keepalive task, dials
\* once without retrying, and either pools and returns the fresh transport or
\* returns the dial error and leaves no entry for the node.
C29_StaleTransportReplaced == [][StaleIsReplaced]_vars

\* a Connect found the pooled transport dead, its dial failed, and the node has
\* no entry
C29_Witness ==
    /\ poolLast # Nil
    /\ poolLast.op = "connect"
    /\ poolLast.cancelled # {}
    /\ poolLast.attempts = 1
    /\ poolLast.err = "dial"
    /\ poolLast.node.Name \notin DOMAIN conns
    /\ ndials = 1

\* ---- C30 ----
\* a Connect for node a is waiting on the network: on the keepalive reply of
\* the pooled transport, or on the dial
ConnectInNetwork(a) == ~MuFree /\ poolMu.node.Name = a

\* C30: while a Connect for node A is dialing or waiting on a keepalive reply,
\* a Connect, Disconnect or Close that concerns another node B can take the
\* pool mutex.
C30_DialOutsideMutex ==
    \A a \in WatchNodes : \A b \in WatchNodes \ {a} :
        ConnectInNetwork(a) =>
            /\ ENABLED MuConnectBegin(NewNodeInfo(b))
            /\ b \in DOMAIN conns => ENABLED PoolDisconnect(b)
            /\ b \in DOMAIN conns => ENABLED PoolClose

\* ---- C31 ----

\* task t puts an event into the channel in this step
Emits(t) == Len(tasks'[t].emits) > Len(tasks[t].emits)

\* task u was started after the probe of the tick task t is in, and an event of
\* u is in the channel already
OvertakenBy(t, u) ==
    /\ u # t
    /\ tasks[u].node = tasks[t].node
    /\ <<t, Len(tasks'[t].probes)>> \in tasks[u].older
    /\ tasks[u].emits # <<>>

\* C31: the events of one node enter the channel in the order in which the
\* node's tasks observed them, also across an unwatch followed by a watch: no
\* task puts the event of a probe into the channel after an event of a probe
\* that was made later.
C31_PerNodeFifo ==
    [][\A t \in DOMAIN tasks : \A u \in DOMAIN tasks :
          Emits(t) => ~OvertakenBy(t, u)]_vars

\* ---- C32 ----

\* the fields of a node record that UpdateNodeStatus does not name
SpecAndHostKey(info) ==
    <<info.Name, info.Key, info.KeyFingerprint, info.HostKey, info.HostKeyKnown>>

\* a call of UpdateNodeStatus for a node that is there changes its status,
\* last-seen and fail count and nothing else in the bucket
UpdateChangesThreeFields(name, status, failCount) ==
    GetNode(name) # Nil =>
        /\ DOMAIN nodes' = DOMAIN nodes
        /\ \A m \in DOMAIN nodes \ {name} : nodes'[m] = nodes[m]
        /\ SpecAndHostKey(nodes'[name]) = SpecAndHostKey(nodes[name])
        /\ nodes'[name].Status = status
        /\ nodes'[name].LastSeen = HbNow
        /\ nodes'[name].FailCount = failCount

\* a call for a node that is not there leaves the Store as it is
UpdateOfMissingChangesNothing(name) ==
    GetNode(name) = Nil => UNCHANGED storeVars

UpdateFails(t) ==
    HbGetNode(t) /\ GetNode(tasks[t].node) = Nil

\* the store call of task t's tick writes the record in this step
UpdateWrites(t) == HbPutNode(t)

\* after the error the task waits for the next tick with the counter the probe
\* gave it, nothing is written, and the event of the tick is in the channel
FailedWriteIsIgnored ==
    \A t \in DOMAIN tasks :
        UpdateFails(t) =>
            LET k == tasks[t]
                j == tasks'[t]
            IN  /\ j.pc = "wait"
                /\ UNCHANGED storeVars
                /\ j.failCount = IF k.miss THEN k.tickLocal + 1 ELSE 0
                /\ k.miss =>
                      /\ j.tickEmits = <<MissStatus(j.failCount)>>
                      /\ Last(emitLog') = NodeEvent(k.node, MissStatus(j.failCount))
                      /\ Last(events') = Last(emitLog')
                /\ (~k.miss /\ k.tickLocal > 0) => j.tickEmits = <<NodeOnline>>

\* a write that works stores the task's counter and its threshold status
WriteStoresLocalCounter ==
    \A t \in DOMAIN tasks :
        UpdateWrites(t) =>
            LET stored == getJSON(nodes', tasks[t].node) IN
            /\ stored.FailCount = tasks'[t].failCount
            /\ stored.Status = Threshold(tasks'[t].failCount)

\* C33: a Store write failure inside a heartbeat tick is ignored: the task goes
\* on, its local fail counter is advanced or reset as the probe says, the
\* tick's event is emitted, and the next tick whose write succeeds stores the
\* task's local fail counter and the threshold status of it.
C33_StoreFailureIgnored ==
    [][FailedWriteIsIgnored /\ WriteStoresLocalCounter]_vars

\* a task whose ticks failed to write while the node was not registered has
\* now written: three misses, the third stored as (offline, 3)
C33_Witness ==
    \E t \in DOMAIN tasks :
        /\ tasks[t].pc = "wait"
        /\ tasks[t].probes = <<"err", "err", "err">>
        /\ tasks[t].emits = <<NodeDegraded, NodeDegraded, NodeOffline>>
        /\ tasks[t].writes = << <<NodeOffline, 3>> >>
        /\ GetNode(tasks[t].node) # Nil
        /\ GetNode(tasks[t].node).FailCount = 3
        /\ GetNode(tasks[t].node).Status = NodeOffline

\* ---- C34 ----

\* a Deploy of a spec with a health check is running
HealthChecked == dpc # "idle" /\ dep.spec.HealthCheck # Nil

\* WaitHealthy returned nil: the latest probe passed
WaitPassed(d) == d.probes = d.attempt + 1 /\ d.healthErr = ""

\* every container but the shadow is as it was
OthersUntouched ==
    \A c \in DOMAIN containers :
        c # dep.newID => c \in DOMAIN containers' /\ containers'[c] = containers[c]

\* without a passed wait no step of Deploy touches the Store or any container
\* other than the shadow
NothingPromotedBeforePass ==
    (HealthChecked /\ ~WaitPassed(dep')) => (UNCHANGED storeVars /\ OthersUntouched)

\* the calls Deploy has made that stop the prior container, rename or persist
PromoteCalls ==
    { i \in DOMAIN dep.calls :
        \/ dep.calls[i].op \in {"rename", "putstate"}
        \/ /\ dep.calls[i].op = "stop"
           /\ dep.existing # Nil
           /\ dep.calls[i].target = dep.existing.ContainerID }

PromoteOnlyAfterPass ==
    (HealthChecked /\ PromoteCalls # {}) => WaitPassed(dep)

\* a wait ended by its context is a health-check failure
ExpiryIsHealthFailure ==
    (HealthChecked /\ dpc = "done" /\ dep.healthErr = "context") =>
        /\ dep.ret = HealthFailError(dep)
        /\ PromoteCalls = {}

\* C34: for a spec with a health check, Deploy stops, removes or renames over
\* the prior container and writes a new ServiceState only after WaitHealthy on
\* the shadow returned success; a wait ended by the expiry of the effective
\* timeout is a health failure.
C34_HealthGated ==
    /\ [](PromoteOnlyAfterPass /\ ExpiryIsHealthFailure)
    /\ [][NothingPromotedBeforePass]_vars

\* a Deploy over a running prior container whose wait ran into the timeout
C34_Witness ==
    /\ dpc = "done"
    /\ dep.healthErr = "context"
    /\ dep.existing # Nil
    /\ dep.existing.ContainerID \in DOMAIN containers
    /\ containers[dep.existing.ContainerID].running
    /\ GetServiceState(dep.node, dep.spec.Name) = dep.existing

\* ---- C35 ----

\* a Deploy over a prior ServiceState has returned the health-check error
HealthFailedOverPrior ==
    /\ dpc = "done"
    /\ dep.ret = HealthFailError(dep)
    /\ dep.existing # Nil

\* the running containers of the node: all of them belong to the one service
RunningContainers == {c \in DOMAIN containers : containers[c].running}

\* C35: after a Deploy that ended in a health-check failure, with or without
\* rollback, the container of the persisted ServiceState is running and is the
\* only running container of the service on the node: the shadow is gone and
\* the rollback has not put a second container of the prior image next to it.
C35_OnlyPriorRunsAfterHealthFail ==
    HealthFailedOverPrior =>
        RunningContainers = {GetServiceState(dep.node, dep.spec.Name).ContainerID}

\* ---- C36 ----

\* fingerprint, encoded host key and host-key-known flag of a record
HostKeyOf(info) == <<info.KeyFingerprint, info.HostKey, info.HostKeyKnown>>

\* status and fail count of a record
StatusOf(info) == <<info.Status, info.FailCount>>

\* the write of a heartbeat tick leaves the host key of a trusted record alone
TickKeepsTrust ==
    \A t \in DOMAIN tasks :
        LET n == tasks[t].node IN
        (HbPutNode(t) /\ GetNode(n) # Nil /\ GetNode(n).HostKeyKnown) =>
            HostKeyOf(getJSON(nodes', n)) = HostKeyOf(GetNode(n))

\* the write of Trust leaves status and fail count as the Store holds them
TrustKeepsStatus ==
    \A id \in DOMAIN regOps :
        LET n == regOps[id].info.Name IN
        (RegTrustPut(id) /\ GetNode(n) # Nil) =>
            StatusOf(getJSON(nodes', n)) = StatusOf(GetNode(n))

\* C36: once Registry.Trust(name, fp, key) has returned, the record keeps
\* host_key_known = true with fingerprint fp and the encoded key under every
\* interleaving with the node's heartbeat ticks, and Trust never overwrites a
\* status or fail count that a tick wrote after Trust read the record.
C36_TrustAndTicksDoNotClobber ==
    [][TickKeepsTrust /\ TrustKeepsStatus]_vars

\* ---- C37 ----

\* a dial returned a transport in this step
DialAccepted == ndials' = ndials + 1

\* C37: once a node's Store record has host_key_known = true, every dial for
\* the node that ends in a connection has verified the presented host key
\* against the stored fingerprint, the dials of a heartbeat task started before
\* the trust included.
C37_TrustedNodeDialsVerify ==
    [][LET n == poolLast'.node.Name IN
       (DialAccepted /\ GetNode(n) # Nil /\ GetNode(n).HostKeyKnown) =>
           poolLast'.presented = GetNode(n).KeyFingerprint]_vars

\* ---- C38 ----

\* a task whose cancel func has been called writes nothing to the Store and
\* puts nothing into the channel
CancelledIsSilent ==
    \A t \in DOMAIN tasks :
        tasks[t].cancelled =>
            /\ Len(tasks'[t].writes) <= Len(tasks[t].writes)
            /\ Len(tasks'[t].emits) <= Len(tasks[t].emits)

\* C38: after Unwatch(n) or StopAll has returned, the cancelled task of n does
\* no further Store write and emits no further event, also when it was inside
\* a probe when it was cancelled, so a task started by a later Watch(n) never
\* runs next to the writes of the old one.
C38_CancelledTaskIsSilent ==
    [][CancelledIsSilent]_vars

\* ---- C39 ----

\* task t puts an event into the channel in this step and the node is in the
\* Store
EmitsForStored(t) ==
    /\ Len(tasks'[t].emits) > Len(tasks[t].emits)
    /\ GetNode(tasks[t].node) # Nil

\* C39: in every tick, miss and recovery alike, the Store write of the new
\* status comes before the event: when an event {node, status} enters the
\* channel, the Store holds that status for the node already.
C39_WriteBeforeEmit ==
    [][\A t \in DOMAIN tasks :
          EmitsForStored(t) =>
              getJSON(nodes', tasks[t].node).Status = Last(emitLog').Status]_vars

====
